---- MODULE Spec2Model ----
(***************************************************************************)
(* Ticket-to-plays extraction of the Powerball ticket checker (app.js):    *)
(* the template-matching path (findPBMarkers, findAllDigits,               *)
(* groupDigitsByY, reconstructTwoDigitNumbers, extractPlaysFromRows), the  *)
(* fallback text extractor (extractNumbersFromOCR) and the dispatcher      *)
(* processTicketImage with the asynchronous template loader.               *)
(*                                                                         *)
(* Correlation scores are integers in percent (0.75 is 75, 0.40 is 40).    *)
(* Text is a sequence of one-character strings.                            *)
(***************************************************************************)
EXTENDS Integers, Sequences, FiniteSets, TLC

VARIABLES
    templatesLoaded,   \* appState.templatesLoaded
    digitTemplates,    \* appState.digitTemplates: the digits whose template is held
    pbTemplate,        \* appState.pbTemplate: TRUE when the PB template is held
    ticketPlays,       \* appState.ticketPlays
    extractedDate,     \* appState.extractedDate
    loadPc,            \* position of loadDigitTemplates
    cvReady,           \* typeof cv !== 'undefined'
    image,             \* the captured image shown in #captured-image
    scanPc,            \* position of processTicketImage / extractNumbersTemplateMatching
    extractedPlays,    \* local extractedPlays of processTicketImage
    liveMats,          \* cv.Mat objects allocated and not yet deleted
    trace,             \* what the current processTicketImage run has executed
    winningNumbers,    \* appState.winningNumbers
    results,           \* the results checkTicket hands to displayResults
    currentEditIndex,  \* appState.currentEditIndex
    modalOpen,         \* #play-modal carries the class 'active'
    cameraStream,      \* appState.cameraStream: the number of the stream held, 0 for null
    pendingStarts,     \* startCamera calls waiting for getUserMedia
    streams,           \* the streams getUserMedia handed out: "live" or "ended" tracks
    stopCameraRan      \* stopCamera has run since the last call of startCamera

vars == <<templatesLoaded, digitTemplates, pbTemplate, ticketPlays, extractedDate,
          loadPc, cvReady, image, scanPc, extractedPlays, liveMats, trace,
          winningNumbers, results, currentEditIndex, modalOpen,
          cameraStream, pendingStarts, streams, stopCameraRan>>

\* the state of the play modal
ModalFrame == <<currentEditIndex, modalOpen>>
\* the state of the camera
CameraFrame == <<cameraStream, pendingStarts, streams, stopCameraRan>>
\* the state of the ticket check, of the play modal and of the camera, which
\* no step of a scan touches
CheckFrame == <<winningNumbers, results, ModalFrame, CameraFrame>>
\* appState.cameraStream: null
NoStream == 0

Null == "null"
\* appState.winningNumbers before any numbers were fetched or entered (null)
NoDrawing == [date |-> 0, white |-> <<>>, powerball |-> 0]
\* currentEditIndex: null; the indices of the plays count from 0
NoIndex == 0 - 1
NoPlay == [white |-> <<>>, powerball |-> 0]

Abs(n) == IF n < 0 THEN -n ELSE n
Min2(a, b) == IF a < b THEN a ELSE b
Max2(a, b) == IF a > b THEN a ELSE b

(***************************************************************************)
(* Array.prototype.sort with a numeric comparator: stable, ascending in    *)
(* the key.  keys[i] is the key of seq[i].                                 *)
(***************************************************************************)
StableSort(seq, keys) ==
    LET n == Len(seq)
        Rank(i) == Cardinality({j \in 1..n : keys[j] < keys[i] \/ (keys[j] = keys[i] /\ j < i)}) + 1
    IN [k \in 1..n |-> seq[CHOOSE i \in 1..n : Rank(i) = k]]

SortByX(hits) == StableSort(hits, [i \in 1..Len(hits) |-> hits[i].x])
SortByY(hits) == StableSort(hits, [i \in 1..Len(hits) |-> hits[i].y])
SortNumbers(nums) == StableSort(nums, nums)

\* Array.prototype.slice(-k) and slice(0, k)
SliceLast(seq, k) == IF Len(seq) <= k THEN seq ELSE SubSeq(seq, Len(seq) - k + 1, Len(seq))
SliceFirst(seq, k) == IF Len(seq) <= k THEN seq ELSE SubSeq(seq, 1, k)

SumY(hits) ==
    LET F[i \in 0..Len(hits)] == IF i = 0 THEN 0 ELSE F[i - 1] + hits[i].y
    IN F[Len(hits)]

(***************************************************************************)
(* groupDigitsByY: sort by y, start a new row when the next hit is more    *)
(* than RowTolerance away from the first hit of the current row.           *)
(***************************************************************************)
RowTolerance == 40

\* groupDigitsByY comparing each hit with the hit before it
groupDigitsByY_chained(allDigits) ==
    LET Rows(sorted) ==
            LET n == Len(sorted)
                Outside(s) == {i \in (s + 1)..n : Abs(sorted[i].y - sorted[i - 1].y) > RowTolerance}
                RowEnd(s) == IF Outside(s) = {} THEN n + 1
                             ELSE CHOOSE i \in Outside(s) : \A j \in Outside(s) : i <= j
                G[s \in 1..(n + 1)] ==
                    IF s > n THEN <<>>
                    ELSE LET e == RowEnd(s) IN <<SubSeq(sorted, s, e - 1)>> \o G[e]
            IN G[1]
    IN CHOOSE rows \in {Rows(sorted) : sorted \in {SortByY(allDigits)}} : TRUE

groupDigitsByY_unsorted(allDigits) ==
    LET Rows(sorted) ==
            LET n == Len(sorted)
                Outside(s) == {i \in (s + 1)..n : Abs(sorted[i].y - sorted[s].y) > RowTolerance}
                RowEnd(s) == IF Outside(s) = {} THEN n + 1
                             ELSE CHOOSE i \in Outside(s) : \A j \in Outside(s) : i <= j
                G[s \in 1..(n + 1)] ==
                    IF s > n THEN <<>>
                    ELSE LET e == RowEnd(s) IN <<SubSeq(sorted, s, e - 1)>> \o G[e]
            IN G[1]
    IN CHOOSE rows \in {Rows(sorted) : sorted \in {allDigits}} : TRUE

groupDigitsByY(allDigits) ==
    LET Rows(sorted) ==
            LET n == Len(sorted)
                \* the hits after s farther than the tolerance from hit s,
                \* which opens a row (currentRow[0])
                Outside(s) == {i \in (s + 1)..n : Abs(sorted[i].y - sorted[s].y) > RowTolerance}
                \* the first hit that closes the row opened by hit s, or n + 1
                RowEnd(s) == IF Outside(s) = {} THEN n + 1
                             ELSE CHOOSE i \in Outside(s) : \A j \in Outside(s) : i <= j
                \* G[s] = the rows formed by hits s..n when hit s opens a row
                G[s \in 1..(n + 1)] ==
                    IF s > n THEN <<>>
                    ELSE LET e == RowEnd(s) IN <<SubSeq(sorted, s, e - 1)>> \o G[e]
            IN G[1]
    IN CHOOSE rows \in {Rows(sorted) : sorted \in {SortByY(allDigits)}} : TRUE

(***************************************************************************)
(* reconstructTwoDigitNumbers: walk the hits in ascending x; a hit and its *)
(* successor closer than PairGap form d1*10+d2, else a single digit.       *)
(***************************************************************************)
PairGap == 110

reconstructTwoDigitNumbers(digitsList) ==
    LET sorted == SortByX(digitsList)
        n == Len(sorted)
        W[i \in 1..(n + 2)] ==
            IF i > n THEN <<>>
            ELSE IF i + 1 <= n /\ sorted[i + 1].x - sorted[i].x < PairGap
                 THEN <<sorted[i].digit * 10 + sorted[i + 1].digit>> \o W[i + 2]
                 ELSE <<sorted[i].digit>> \o W[i + 1]
    IN IF n = 0 THEN <<>> ELSE W[1]

(***************************************************************************)
(* extractPlaysFromRows, one row: closest PB marker by vertical centre,    *)
(* split at the marker, last 10 digits before and first 2 after, pairing,  *)
(* validation.  The row mean avgY = sum/len is compared after scaling both *)
(* sides by len, which keeps the comparison exact in integers.             *)
(***************************************************************************)
PbW == 90
PbH == 88
WhiteDigits == 10
PowerballDigits == 2
MaxWhite == 69
MaxPowerball == 26

\* closestPB where a marker as close as the best so far replaces it
closestPB_lastMinimum(digitRow, pbMarkers) ==
    LET n == Len(digitRow)
        Dist(k) == Abs((pbMarkers[k].y + (PbH \div 2)) * n - SumY(digitRow))
        C[k \in 0..Len(pbMarkers)] ==
            IF k = 0 THEN 0
            ELSE LET best == C[k - 1]
                 IN IF best = 0 THEN k
                    ELSE IF Dist(k) <= Dist(best) THEN k ELSE best
    IN C[Len(pbMarkers)]

closestPB(digitRow, pbMarkers) ==
    LET n == Len(digitRow)
        Dist(k) == Abs((pbMarkers[k].y + (PbH \div 2)) * n - SumY(digitRow))
        \* C[k] = index of the closest marker among 1..k (strict <: first minimum)
        C[k \in 0..Len(pbMarkers)] ==
            IF k = 0 THEN 0
            ELSE LET best == C[k - 1]
                 IN IF best = 0 THEN k
                    ELSE IF Dist(k) < Dist(best) THEN k ELSE best
    IN C[Len(pbMarkers)]

\* beforePB on the row as enumerated, without the sort by x
beforePB_unsorted(digitRow, pb) == SelectSeq(digitRow, LAMBDA d : d.x < pb.x)
beforePB(digitRow, pb) == SelectSeq(SortByX(digitRow), LAMBDA d : d.x < pb.x)
afterPB(digitRow, pb) == SelectSeq(SortByX(digitRow), LAMBDA d : d.x > pb.x + PbW)

\* isValid where a powerball equal to a white ball is refused
isValid_pbNotWhite(whiteBalls, powerballNumbers) ==
    /\ Len(whiteBalls) = 5
    /\ Len(powerballNumbers) > 0
    /\ powerballNumbers[1] >= 1 /\ powerballNumbers[1] <= MaxPowerball
    /\ \A i \in 1..Len(whiteBalls) : whiteBalls[i] >= 1 /\ whiteBalls[i] <= MaxWhite
    /\ \A i \in 1..Len(whiteBalls) : whiteBalls[i] # powerballNumbers[1]

\* powerballNumbers[1] is the local powerball; it is null when the list is empty
isValid(whiteBalls, powerballNumbers) ==
    /\ Len(whiteBalls) = 5
    /\ Len(powerballNumbers) > 0
    /\ powerballNumbers[1] >= 1 /\ powerballNumbers[1] <= MaxPowerball
    /\ \A i \in 1..Len(whiteBalls) : whiteBalls[i] >= 1 /\ whiteBalls[i] <= MaxWhite

\* The validation of extractPlaysFromRows applied to a candidate play: the
\* play it pushes, or NoPlay.
validateRowPlay_reversing(p) ==
    IF isValid(p.white, <<p.powerball>>)
    THEN [white |-> [i \in 1..Len(p.white) |-> SortNumbers(p.white)[Len(p.white) + 1 - i]],
          powerball |-> p.powerball]
    ELSE NoPlay
validateRowPlay(p) ==
    IF isValid(p.white, <<p.powerball>>)
    THEN [white |-> SortNumbers(p.white), powerball |-> p.powerball]
    ELSE NoPlay

\* The play one row pushes, or NoPlay when the row is skipped or invalid.
rowPlay(digitRow, pbMarkers) ==
    LET c == closestPB(digitRow, pbMarkers)
    IN IF c = 0 THEN NoPlay
       ELSE LET pb == pbMarkers[c]
                whiteBallDigits == SliceLast(beforePB(digitRow, pb), WhiteDigits)
                powerballDigits == SliceFirst(afterPB(digitRow, pb), PowerballDigits)
                whiteBalls == reconstructTwoDigitNumbers(whiteBallDigits)
                powerballNumbers == reconstructTwoDigitNumbers(powerballDigits)
            IN IF powerballNumbers = <<>> THEN NoPlay
               ELSE validateRowPlay([white |-> whiteBalls, powerball |-> powerballNumbers[1]])

extractPlaysFromRows(digitRows, pbMarkers) ==
    LET all == [r \in 1..Len(digitRows) |-> rowPlay(digitRows[r], pbMarkers)]
    IN SelectSeq(all, LAMBDA p : p # NoPlay)

(***************************************************************************)
(* findPBMarkers: candidates at or above the threshold (raster order),     *)
(* sorted by confidence descending, non-maximum suppression, sorted by y.  *)
(***************************************************************************)
PbThreshold == 75
NmsRadius == 30

\* findPBMarkers where the suppression walks the candidates in raster order
findPBMarkers_rasterOrder(cands, havePbTemplate) ==
    LET candidates == SelectSeq(cands, LAMBDA c : c.confidence >= PbThreshold)
        isDuplicate(c, kept) ==
            \E k \in 1..Len(kept) : Abs(c.x - kept[k].x) < NmsRadius /\ Abs(c.y - kept[k].y) < NmsRadius
        K[i \in 0..Len(candidates)] ==
            IF i = 0 THEN <<>>
            ELSE LET kept == K[i - 1]
                 IN IF isDuplicate(candidates[i], kept) THEN kept ELSE Append(kept, candidates[i])
    IN IF ~havePbTemplate THEN <<>> ELSE SortByY(K[Len(candidates)])

findPBMarkers(cands, havePbTemplate) ==
    LET candidates == SelectSeq(cands, LAMBDA c : c.confidence >= PbThreshold)
        byConf == StableSort(candidates, [i \in 1..Len(candidates) |-> 0 - candidates[i].confidence])
        isDuplicate(c, kept) ==
            \E k \in 1..Len(kept) : Abs(c.x - kept[k].x) < NmsRadius /\ Abs(c.y - kept[k].y) < NmsRadius
        K[i \in 0..Len(byConf)] ==
            IF i = 0 THEN <<>>
            ELSE LET kept == K[i - 1]
                 IN IF isDuplicate(byConf[i], kept) THEN kept ELSE Append(kept, byConf[i])
    IN IF ~havePbTemplate THEN <<>> ELSE SortByY(K[Len(byConf)])

(***************************************************************************)
(* matchDigitTemplate: score[d] is the best correlation over the five      *)
(* scales against template d; the first digit with the strictly highest    *)
(* score wins; below MinDigitScore the contour is rejected (digit null).   *)
(***************************************************************************)
MinDigitScore == 40
NoDigit == 10

matchDigitTemplate(score, templates) ==
    LET B[d \in 0..10] ==   \* <<bestMatch, bestScore>> after digits 0..d-1
            IF d = 0 THEN <<NoDigit, 0>>
            ELSE LET best == B[d - 1]
                 IN IF (d - 1) \in templates /\ score[d - 1] > best[2]
                    THEN <<d - 1, score[d - 1]>>
                    ELSE best
    IN IF B[10][2] < MinDigitScore THEN NoDigit ELSE B[10][1]

(***************************************************************************)
(* findAllDigits: contours in enumeration order, size filter, template     *)
(* classification; a hit is placed at (rect.x, rect.y + floor(height/2)).  *)
(***************************************************************************)
sizeOk(rect) ==
    /\ rect.height >= 30 /\ rect.width >= 15 /\ rect.width <= 90
    /\ rect.area >= 800 /\ rect.area <= 6000

findAllDigits(contours, templates) ==
    LET sized == SelectSeq(contours, sizeOk)
        matched == [i \in 1..Len(sized) |->
                       [x |-> sized[i].x, y |-> sized[i].y + (sized[i].height \div 2),
                        digit |-> matchDigitTemplate(sized[i].score, templates)]]
    IN SelectSeq(matched, LAMBDA hit : hit.digit # NoDigit)

\* Steps 5a-5d of extractNumbersTemplateMatching on the processed plays region
matchPlays(img, templates, havePbTemplate) ==
    CHOOSE plays \in
        {extractPlaysFromRows(digitRows, pbMarkers) :
            pbMarkers \in {findPBMarkers(img.pbCands, havePbTemplate)},
            digitRows \in {groupDigitsByY(allDigits) :
                               allDigits \in {findAllDigits(img.contours, templates)}}} : TRUE

(***************************************************************************)
(* normalizeOrientation: the four QR corners are ordered by their position *)
(* in the image (sort by y, top pair and bottom pair sorted by x), the QR  *)
(* edge is the rounded mean of the top and left edges, and the homography  *)
(* sends the ordered corners to an axis-aligned square at the bottom right *)
(* of a canvas of side round(10.8 * qrSize).                               *)
(***************************************************************************)
\* Math.hypot on integer offsets, exact for axis-parallel edges
Hypot(dx, dy) ==
    CHOOSE r \in 0..(Abs(dx) + Abs(dy)) :
        r * r <= dx * dx + dy * dy /\ (r + 1) * (r + 1) > dx * dx + dy * dy
\* Math.round(n / d) for n >= 0, d > 0
RoundDiv(n, d) == (2 * n + d) \div (2 * d)

NoCanvas == [ordered |-> <<>>, qrSize |-> 0, ticketWidth |-> 0, ticketHeight |-> 0,
             qrDestX |-> 0, qrDestY |-> 0]

orderedCorners(qrPoints) ==
    LET sorted == SortByY(qrPoints)
        top == SortByX(SubSeq(sorted, 1, 2))
        bottom == SortByX(SubSeq(sorted, 3, 4))
    IN <<top[1], top[2], bottom[2], bottom[1]>>

normalizeOrientation(qrPoints) ==
    LET ordered == orderedCorners(qrPoints)
        qrWidth == Hypot(ordered[2].x - ordered[1].x, ordered[2].y - ordered[1].y)
        qrHeight == Hypot(ordered[4].x - ordered[1].x, ordered[4].y - ordered[1].y)
        qrSize == RoundDiv(qrWidth + qrHeight, 2)
        ticketWidth == RoundDiv(qrSize * 108, 10)
        ticketHeight == RoundDiv(qrSize * 108, 10)
        qrMargin == RoundDiv(qrSize * 2, 10)
    IN [ordered |-> ordered, qrSize |-> qrSize,
        ticketWidth |-> ticketWidth, ticketHeight |-> ticketHeight,
        qrDestX |-> ticketWidth - qrSize - qrMargin,
        qrDestY |-> ticketHeight - qrSize - qrMargin]

\* Where warpPerspective puts image point p: H sends ordered[1], ordered[2],
\* ordered[4] to the destination square's top-left, top-right, bottom-left.
\* The edges are axis-parallel and of length qrSize in the images used here,
\* so H is the affine map below and the divisions are exact.
warpPoint(canvas, p) ==
    LET o == canvas.ordered
        ex == [x |-> o[2].x - o[1].x, y |-> o[2].y - o[1].y]
        ey == [x |-> o[4].x - o[1].x, y |-> o[4].y - o[1].y]
        Dot(u, v) == u.x * v.x + u.y * v.y
        rel == [x |-> p.x - o[1].x, y |-> p.y - o[1].y]
    IN [x |-> canvas.qrDestX + (canvas.qrSize * Dot(rel, ex)) \div Dot(ex, ex),
        y |-> canvas.qrDestY + (canvas.qrSize * Dot(rel, ey)) \div Dot(ey, ey)]

(***************************************************************************)
(* findPlaysRegion on the normalized canvas: the rows above the QR code,   *)
(* the search band from 58% to 72% of them, the first band row whose       *)
(* projection is between 0.3 and 0.7 of the largest (the band's first row  *)
(* when there is none), and the region with its margins of 10 rows.        *)
(* horizontalProj[y] is the number of white pixels of band row y - 1.      *)
(***************************************************************************)
\* Math.round(pct / 100 * n)
RoundPct(pct, n) == RoundDiv(pct * n, 100)
RegionMargin == 10
NoRegion == [searchStartY |-> 0, searchEndY |-> 0, boundaryY |-> 0, topY |-> 0, bottomY |-> 0]

\* findPlaysRegion without the two margins
findPlaysRegion_noMargin(canvas, horizontalProj) ==
    LET qrTopY == canvas.qrDestY
        searchStartY == RoundPct(58, qrTopY)
        searchEndY == RoundPct(72, qrTopY)
        maxProj == IF horizontalProj = <<>> THEN 0
                   ELSE CHOOSE m \in {horizontalProj[y] : y \in 1..Len(horizontalProj)} :
                            \A y \in 1..Len(horizontalProj) : horizontalProj[y] <= m
        dashed == {y \in 1..Len(horizontalProj) :
                      10 * horizontalProj[y] > 3 * maxProj /\ 10 * horizontalProj[y] < 7 * maxProj}
        boundaryY == IF dashed = {} THEN searchStartY
                     ELSE searchStartY + (CHOOSE y \in dashed : \A z \in dashed : y <= z) - 1
    IN [searchStartY |-> searchStartY, searchEndY |-> searchEndY, boundaryY |-> boundaryY,
        topY |-> boundaryY, bottomY |-> qrTopY]

findPlaysRegion(canvas, horizontalProj) ==
    LET qrTopY == canvas.qrDestY
        searchStartY == RoundPct(58, qrTopY)
        searchEndY == RoundPct(72, qrTopY)
        maxProj == IF horizontalProj = <<>> THEN 0
                   ELSE CHOOSE m \in {horizontalProj[y] : y \in 1..Len(horizontalProj)} :
                            \A y \in 1..Len(horizontalProj) : horizontalProj[y] <= m
        dashed == {y \in 1..Len(horizontalProj) :
                      10 * horizontalProj[y] > 3 * maxProj /\ 10 * horizontalProj[y] < 7 * maxProj}
        boundaryY == IF dashed = {} THEN searchStartY
                     ELSE searchStartY + (CHOOSE y \in dashed : \A z \in dashed : y <= z) - 1
    IN [searchStartY |-> searchStartY, searchEndY |-> searchEndY, boundaryY |-> boundaryY,
        topY |-> boundaryY + RegionMargin, bottomY |-> qrTopY - RegionMargin]

(***************************************************************************)
(* Characters and the regular-expression classes \d, \w, \s, \b.           *)
(***************************************************************************)
DigitChars == <<"0", "1", "2", "3", "4", "5", "6", "7", "8", "9">>
IsDigit(c) == \E d \in 1..10 : DigitChars[d] = c
DigitVal(c) == (CHOOSE d \in 1..10 : DigitChars[d] = c) - 1
Letters == {"A", "B", "C", "D", "E", "F", "G", "H", "I", "J", "K", "L", "M",
            "N", "O", "P", "Q", "R", "S", "T", "U", "V", "W", "X", "Y", "Z",
            "a", "b", "c", "d", "e", "f", "g", "h", "i", "j", "k", "l", "m",
            "n", "o", "p", "q", "r", "s", "t", "u", "v", "w", "x", "y", "z"}
IsWord(c) == IsDigit(c) \/ c \in Letters \/ c = "_"
NL == "\n"
IsSpace(c) == c \in {" ", NL, "\t", "\r"}

\* \b between positions i-1 and i of t (i in 1..Len(t)+1)
WordAt(t, i) == i >= 1 /\ i <= Len(t) /\ IsWord(t[i])
Boundary(t, i) == WordAt(t, i - 1) # WordAt(t, i)

\* length of the maximal run of characters satisfying P that starts at i
RunLen(t, i, P(_)) ==
    IF i > Len(t) THEN 0
    ELSE (CHOOSE j \in i..(Len(t) + 1) :
              /\ j > Len(t) \/ ~P(t[j])
              /\ \A k \in i..(j - 1) : P(t[k])) - i
DigitRun(t, i) == RunLen(t, i, IsDigit)
SpaceRun(t, i) == RunLen(t, i, IsSpace)

(***************************************************************************)
(* String.prototype.replace with a global regular expression: scan from    *)
(* the left; where MatchLen(t, i) > 0 the match is replaced by Repl(t, i)  *)
(* and the scan resumes after the match.  The subject string is evaluated  *)
(* once, as the receiver of the method call is.                            *)
(***************************************************************************)
ReplaceAll(text, MatchLen(_, _), Repl(_, _)) ==
    LET \* cand: the positions of t where the pattern matches
        Scan(t, cand) ==
            LET n == Len(t)
                \* the leftmost match at or after position i, or n + 1
                NextMatch(i) ==
                    LET later == {j \in cand : j >= i}
                    IN IF later = {} THEN n + 1
                       ELSE CHOOSE j \in later : \A k \in later : j <= k
                \* F[i] = the result for the rest of t when the scan is at i
                F[i \in 1..(n + 1)] ==
                    IF i > n THEN <<>>
                    ELSE LET j == NextMatch(i)
                         IN IF j > n THEN SubSeq(t, i, n)
                            ELSE SubSeq(t, i, j - 1) \o Repl(t, j) \o F[j + MatchLen(t, j)]
            IN F[1]
        Replaced(t) ==
            CHOOSE r \in {Scan(t, cand) : cand \in {{j \in 1..Len(t) : MatchLen(t, j) > 0}}} : TRUE
    IN CHOOSE r \in {Replaced(t) : t \in {text}} : TRUE

\* a two-letter word between word boundaries, e.g. /\bMB\b/
TwoLetterWord(t, i, first, second) ==
    IF /\ i + 1 <= Len(t) /\ t[i] \in first /\ t[i + 1] \in second
       /\ Boundary(t, i) /\ Boundary(t, i + 2)
    THEN 2 ELSE 0

\* /\bMB\b/gi and /\bKB\b/gi -> 'PB'
fixMB(t) == ReplaceAll(t, LAMBDA u, i : TwoLetterWord(u, i, {"M", "m"}, {"B", "b"}), LAMBDA u, i : <<"P", "B">>)
fixKB(t) == ReplaceAll(t, LAMBDA u, i : TwoLetterWord(u, i, {"K", "k"}, {"B", "b"}), LAMBDA u, i : <<"P", "B">>)

\* /m+\s*(\d)/gi -> 'PB $1'
mRun(t, i) == RunLen(t, i, LAMBDA c : c \in {"M", "m"})
mMatch(t, i) ==
    LET m == mRun(t, i)
        s == SpaceRun(t, i + m)
    IN IF m > 0 /\ i + m + s <= Len(t) /\ IsDigit(t[i + m + s]) THEN m + s + 1 ELSE 0
fixM(t) == ReplaceAll(t, mMatch, LAMBDA u, i : <<"P", "B", " ", u[i + mMatch(u, i) - 1]>>)

\* /\bB(\d\d?)/gi -> 'PB $1'
bNumMatch(t, i) ==
    IF t[i] \in {"B", "b"} /\ Boundary(t, i) /\ DigitRun(t, i + 1) >= 1
    THEN 1 + (IF DigitRun(t, i + 1) >= 2 THEN 2 ELSE 1) ELSE 0
fixBNum(t) == ReplaceAll(t, bNumMatch, LAMBDA u, i : <<"P", "B", " ">> \o SubSeq(u, i + 1, i + bNumMatch(u, i) - 1))

\* /(\d+)B\b/gi -> '$1'
numBMatch(t, i) ==
    LET d == DigitRun(t, i)
    IN IF d > 0 /\ i + d <= Len(t) /\ t[i + d] \in {"B", "b"} /\ Boundary(t, i + d + 1)
       THEN d + 1 ELSE 0
fixNumB(t) == ReplaceAll(t, numBMatch, LAMBDA u, i : SubSeq(u, i, i + numBMatch(u, i) - 2))

\* /(\d)(PB)/gi -> '$1 $2'
digitPBMatch(t, i) ==
    IF IsDigit(t[i]) /\ i + 2 <= Len(t) /\ t[i + 1] \in {"P", "p"} /\ t[i + 2] \in {"B", "b"}
    THEN 3 ELSE 0
fixDigitPB(t) == ReplaceAll(t, digitPBMatch, LAMBDA u, i : <<u[i], " ", u[i + 1], u[i + 2]>>)

\* /\b72\b/g -> '12', /\b71\b/g -> '11', /\bBa\b/g -> '04', /\bOa\b/g -> '04'
fix72(t) == ReplaceAll(t, LAMBDA u, i : TwoLetterWord(u, i, {"7"}, {"2"}), LAMBDA u, i : <<"1", "2">>)
fix71(t) == ReplaceAll(t, LAMBDA u, i : TwoLetterWord(u, i, {"7"}, {"1"}), LAMBDA u, i : <<"1", "1">>)
fixBa(t) == ReplaceAll(t, LAMBDA u, i : TwoLetterWord(u, i, {"B"}, {"a"}), LAMBDA u, i : <<"0", "4">>)
fixOa(t) == ReplaceAll(t, LAMBDA u, i : TwoLetterWord(u, i, {"O"}, {"a"}), LAMBDA u, i : <<"0", "4">>)

\* /\bO(\d)/g -> '0$1'
oDigitMatch(t, i) ==
    IF t[i] = "O" /\ Boundary(t, i) /\ i + 1 <= Len(t) /\ IsDigit(t[i + 1]) THEN 2 ELSE 0
fixO(t) == ReplaceAll(t, oDigitMatch, LAMBDA u, i : <<"0", u[i + 1]>>)

\* /(\d{4,})/g -> the digits in pairs joined by ' ' (a last odd digit alone)
\* the run cut into chunks of three digits instead of two
splitPairs_triples(digits) ==
    LET n == Len(digits)
        P[i \in 1..(n + 3)] ==
            IF i > n THEN <<>>
            ELSE (IF i > 1 THEN <<" ">> ELSE <<>>) \o SubSeq(digits, i, Min2(i + 2, n)) \o P[i + 3]
    IN P[1]
\* the pairs without the last digit of a run of odd length
splitPairs_dropOdd(digits) ==
    LET n == Len(digits)
        P[i \in 1..(n + 2)] ==
            IF i + 1 > n THEN <<>>
            ELSE (IF i > 1 THEN <<" ">> ELSE <<>>) \o <<digits[i], digits[i + 1]>> \o P[i + 2]
    IN P[1]
splitPairs(digits) ==
    LET n == Len(digits)
        P[i \in 1..(n + 2)] ==
            IF i > n THEN <<>>
            ELSE IF i + 1 <= n
                 THEN (IF i > 1 THEN <<" ">> ELSE <<>>) \o <<digits[i], digits[i + 1]>> \o P[i + 2]
                 ELSE (IF i > 1 THEN <<" ">> ELSE <<>>) \o <<digits[i]>>
    IN P[1]
longRunMatch(t, i) == IF DigitRun(t, i) >= 4 THEN DigitRun(t, i) ELSE 0
fixLongRuns(t) == ReplaceAll(t, longRunMatch, LAMBDA u, i : splitPairs(SubSeq(u, i, i + DigitRun(u, i) - 1)))

\* the replace chain at the head of extractNumbersFromOCR, in source order
fixCommonErrors(text) ==
    fixO(fixOa(fixBa(fix71(fix72(fixDigitPB(fixNumB(fixBNum(fixM(fixKB(fixMB(text)))))))))))
preprocessText(text) == fixLongRuns(fixCommonErrors(text))

(***************************************************************************)
(* Line processing of extractNumbersFromOCR.                               *)
(***************************************************************************)
\* String.prototype.split('\n')
splitLines(t) ==
    LET n == Len(t)
        separators == {i \in 1..n : t[i] = NL}
        \* the position of the k-th separator; 0 and n + 1 bound the string
        Break(k) == IF k = 0 THEN 0
                    ELSE IF k > Cardinality(separators) THEN n + 1
                    ELSE CHOOSE i \in separators : Cardinality({j \in separators : j <= i}) = k
    IN [k \in 1..(Cardinality(separators) + 1) |-> SubSeq(t, Break(k - 1) + 1, Break(k) - 1)]

\* parseInt of a digit string
parseInt(digits) ==
    LET V[i \in 0..Len(digits)] == IF i = 0 THEN 0 ELSE V[i - 1] * 10 + DigitVal(digits[i])
    IN V[Len(digits)]

\* line.match(/\d+/g) followed by map(parseInt): the maximal digit runs, left to right
lineNumbers(line) ==
    LET starts == {i \in 1..Len(line) : IsDigit(line[i]) /\ (i = 1 \/ ~IsDigit(line[i - 1]))}
        \* the position where the k-th run starts
        Start(k) == CHOOSE i \in starts : Cardinality({j \in starts : j <= i}) = k
    IN [k \in 1..Cardinality(starts) |->
           parseInt(SubSeq(line, Start(k), Start(k) + DigitRun(line, Start(k)) - 1))]

\* line.match(/\bPB\s*(\d+)/i): <<found, pbNum>> of the first match
pbMatchAt(line, i) ==
    /\ i + 1 <= Len(line) /\ line[i] \in {"P", "p"} /\ line[i + 1] \in {"B", "b"}
    /\ Boundary(line, i)
    /\ DigitRun(line, i + 2 + SpaceRun(line, i + 2)) >= 1
pbMatch(line) ==
    IF \E i \in 1..Len(line) : pbMatchAt(line, i)
    THEN LET i == CHOOSE k \in 1..Len(line) : pbMatchAt(line, k) /\ \A j \in 1..(k - 1) : ~pbMatchAt(line, j)
             s == i + 2 + SpaceRun(line, i + 2)
         IN <<TRUE, parseInt(SubSeq(line, s, s + DigitRun(line, s) - 1))>>
    ELSE <<FALSE, 0>>

\* Array.prototype.indexOf, 0-based, -1 when absent
indexOf(seq, v) ==
    IF \E i \in 1..Len(seq) : seq[i] = v
    THEN (CHOOSE i \in 1..Len(seq) : seq[i] = v /\ \A j \in 1..(i - 1) : seq[j] # v) - 1
    ELSE 0 - 1

\* Array.prototype.slice(from, to) with 0 <= from <= to
Slice(seq, from, to) == SubSeq(seq, from + 1, Min2(to, Len(seq)))

IsSet(seq) == \A i, j \in 1..Len(seq) : i # j => seq[i] # seq[j]

MinLineLength == 10
MinNumbers == 6

\* linePlay without the uniqueness test on the white balls
linePlay_noUniqueness(line) ==
    LET nums == lineNumbers(line)
        validNums == SelectSeq(nums, LAMBDA n : n >= 1 /\ n <= MaxWhite)
        pbm == pbMatch(line)
        marked == pbm[1] /\ pbm[2] >= 1 /\ pbm[2] <= MaxPowerball
        powerball == IF marked THEN pbm[2] ELSE validNums[Len(validNums)]
        powerballIndex == IF marked THEN indexOf(validNums, pbm[2]) ELSE Len(validNums) - 1
        whiteBalls == IF powerballIndex >= 5
                      THEN Slice(validNums, powerballIndex - 5, powerballIndex)
                      ELSE SliceFirst(SliceLast(validNums, 6), 5)
    IN IF Len(line) < MinLineLength THEN NoPlay
       ELSE IF Len(nums) < MinNumbers THEN NoPlay
       ELSE IF Len(validNums) < MinNumbers THEN NoPlay
       ELSE IF Len(whiteBalls) = 5 /\ powerball >= 1 /\ powerball <= MaxPowerball
            THEN [white |-> SortNumbers(whiteBalls), powerball |-> powerball]
            ELSE NoPlay

\* The validation of extractNumbersFromOCR applied to a candidate play
validateLinePlay(p) ==
    IF Len(p.white) = 5 /\ IsSet(p.white) /\ p.powerball >= 1 /\ p.powerball <= MaxPowerball
    THEN [white |-> SortNumbers(p.white), powerball |-> p.powerball]
    ELSE NoPlay

\* The play one line pushes, or NoPlay when the line is skipped or rejected.
linePlay(line) ==
    LET nums == lineNumbers(line)
        validNums == SelectSeq(nums, LAMBDA n : n >= 1 /\ n <= MaxWhite)
        pbm == pbMatch(line)
        marked == pbm[1] /\ pbm[2] >= 1 /\ pbm[2] <= MaxPowerball
        powerball == IF marked THEN pbm[2] ELSE validNums[Len(validNums)]
        powerballIndex == IF marked THEN indexOf(validNums, pbm[2]) ELSE Len(validNums) - 1
        whiteBalls == IF powerballIndex >= 5
                      THEN Slice(validNums, powerballIndex - 5, powerballIndex)
                      ELSE SliceFirst(SliceLast(validNums, 6), 5)
    IN IF Len(line) < MinLineLength THEN NoPlay
       ELSE IF Len(nums) < MinNumbers THEN NoPlay
       ELSE IF Len(validNums) < MinNumbers THEN NoPlay
       ELSE validateLinePlay([white |-> whiteBalls, powerball |-> powerball])

extractNumbersFromOCR(text) ==
    LET Plays(lines) ==
            SelectSeq([i \in 1..Len(lines) |-> linePlay(lines[i])], LAMBDA p : p # NoPlay)
    IN CHOOSE plays \in {Plays(lines) : lines \in {splitLines(t) : t \in {preprocessText(text)}}} : TRUE

(***************************************************************************)
(* Captured images.  An image is what the pipeline can observe of it: the  *)
(* QR detector's verdict, the contours of the processed plays region with  *)
(* their per-digit correlation scores (in findContours order), the PB      *)
(* correlation peaks (in raster order) and the text Tesseract recognises.  *)
(* rows and lines record what is printed, for stating the properties.      *)
(***************************************************************************)
MaxRows == 5

RECURSIVE Flatten(_)
Flatten(seqs) == IF seqs = <<>> THEN <<>> ELSE seqs[1] \o Flatten(Tail(seqs))

\* the two digit cells of each number
Cells(nums) == Flatten([i \in 1..Len(nums) |-> <<nums[i] \div 10, nums[i] % 10>>])
\* the cells with the k-th glyph unrecognisable (k = 0: unchanged)
Erase(cells, k) == [i \in 1..Len(cells) |-> IF i = k THEN NoDigit ELSE cells[i]]

\* recognised text: numbers before the marker, the marker, the number after
\* it, numbers after that; tokens separated by sep
TwoDigits(n) == <<DigitChars[(n \div 10) + 1], DigitChars[(n % 10) + 1]>>
JoinTokens(tokens, sep) ==
    Flatten([i \in 1..Len(tokens) |-> IF i = 1 THEN tokens[i] ELSE sep \o tokens[i]])
PrintedLine(before, marker, pb, after, sep) ==
    [before |-> before, marker |-> marker, pb |-> pb, after |-> after, sep |-> sep]
LineText(l) ==
    JoinTokens([i \in 1..Len(l.before) |-> TwoDigits(l.before[i])]
               \o (IF l.marker = <<>> THEN <<>> ELSE <<l.marker>>)
               \o <<TwoDigits(l.pb)>>
               \o [i \in 1..Len(l.after) |-> TwoDigits(l.after[i])], l.sep)

BeforeChoices == {<<7, 14, 22, 45, 61>>, <<7, 9, 22, 45, 61>>, <<9, 14, 22, 45, 61>>,
                  <<14, 22, 45, 61>>, <<7, 7, 14, 22, 45>>, <<5, 7, 14, 22, 45, 61>>,
                  <<7, 14, 22, 45, 70>>, <<61, 7, 45, 14, 22>>}
MarkerChoices == {<<"P", "B">>, <<"M", "B">>, <<"K", "B">>, <<>>}
PbChoices == {9, 26, 33, 0}
AfterChoices == {<<>>, <<12>>, <<12, 13>>}
SepChoices == {<<" ">>, <<>>}
PrintedLines ==
    {PrintedLine(b, m, p, a, sp) :
        b \in BeforeChoices, m \in MarkerChoices, p \in PbChoices, a \in AfterChoices, sp \in SepChoices}
SecondLines == {PrintedLine(<<3, 18, 27, 44, 60>>, <<"P", "B">>, 12, <<>>, <<" ">>),
                PrintedLine(<<20, 25>>, <<>>, 11, <<>>, <<" ">>)}

MaxLines == 2
RECURSIVE TextOf(_)
TextOf(lines) ==
    IF lines = <<>> THEN <<>>
    ELSE LineText(lines[1]) \o (IF Len(lines) > 1 THEN <<NL>> ELSE <<>>) \o TextOf(Tail(lines))
\* horizontal layout: distance between the two digits of a number, and between numbers
Layouts == {[in |-> 50, num |-> 130], [in |-> 50, num |-> 100], [in |-> 110, num |-> 240]}
CellX(k, lay) == 40 + ((k - 1) \div 2) * lay.num + ((k - 1) % 2) * lay.in
RowTop(r) == 100 + 120 * (r - 1)
GlyphScore(g) == [d \in 0..9 |-> IF d = g THEN 90 ELSE 20]

\* a printed row: white digit cells, powerball digit cells (NoDigit: glyph not
\* detected), whether the PB glyph is detected, and the layout
PrintedRow(cells, pbCells, pbSeen, lay) ==
    [cells |-> cells, pbCells |-> pbCells, pbSeen |-> pbSeen, lay |-> lay]

PbX(row) == CellX(Len(row.cells), row.lay) + 60
RowContours(row, r) ==
    LET glyph(x, g) == [x |-> x, y |-> RowTop(r), width |-> 40, height |-> 60, area |-> 1500,
                        score |-> GlyphScore(g)]
        white == [k \in 1..Len(row.cells) |-> glyph(CellX(k, row.lay), row.cells[k])]
        pb == [k \in 1..Len(row.pbCells) |->
                  glyph(PbX(row) + PbW + 20 + (k - 1) * row.lay.in, row.pbCells[k])]
    IN white \o pb
RowPbCands(row, r) ==
    IF row.pbSeen THEN <<[x |-> PbX(row), y |-> RowTop(r) + 30 - (PbH \div 2), confidence |-> 90]>>
    ELSE <<>>

\* the corners the QR detector reports for a code printed upright with its
\* top-left corner at (qx, qy) and edge s: top-left, top-right, bottom-right,
\* bottom-left of the code itself
QrSquare(qx, qy, s) ==
    <<[x |-> qx, y |-> qy], [x |-> qx + s, y |-> qy],
      [x |-> qx + s, y |-> qy + s], [x |-> qx, y |-> qy + s]>>

TicketImage(rows, qr, lines, date) ==
    [qr |-> qr, rows |-> rows, lines |-> lines, date |-> date, text |-> TextOf(lines),
     qrPoints |-> IF qr THEN QrSquare(140, 150, 10) ELSE <<>>,
     contours |-> Flatten([r \in 1..Len(rows) |-> RowContours(rows[r], r)]),
     pbCands |-> Flatten([r \in 1..Len(rows) |-> RowPbCands(rows[r], r)])]

\* the five plays of the canonical ticket, repeated below the fifth row
CanonWhite == <<(<<7, 14, 22, 45, 61>>), (<<3, 18, 27, 44, 60>>), (<<1, 5, 30, 51, 66>>),
                (<<11, 19, 33, 47, 58>>), (<<2, 16, 29, 42, 69>>)>>
CanonPb == <<9, 12, 4, 21, 26>>
CanonRow(r, pbSeen) ==
    PrintedRow(Cells(CanonWhite[((r - 1) % 5) + 1]), Cells(<<CanonPb[((r - 1) % 5) + 1]>>),
               pbSeen, [in |-> 50, num |-> 130])
CanonTickets ==
    {[r \in 1..n |-> CanonRow(r, r \in seen)] : n \in 1..MaxRows, seen \in SUBSET (1..MaxRows)}

\* single rows: repeated whites, a white above 69, an extra leading number,
\* one undetected digit, powerballs out of range or incomplete
WhiteChoices == {<<7, 14, 22, 45, 61>>, <<7, 7, 14, 22, 45>>, <<7, 14, 22, 45, 70>>,
                 <<33, 7, 14, 22, 45, 61>>}
PbCellChoices == {<<0, 9>>, <<3, 3>>, <<2, 6>>, <<9>>, <<>>}
SingleRows ==
    {<<PrintedRow(Erase(Cells(w), k), p, seen, lay)>> :
        w \in WhiteChoices, k \in 0..10, p \in PbCellChoices, seen \in BOOLEAN, lay \in Layouts}

\* The same image with its contours and PB peaks enumerated in another order
\* (cv.findContours and the minMaxLoc scan fix no order the rows depend on):
\* back to front, or every second one first.
Orders == {"reversed", "alternate"}
Reordered(img, order) ==
    LET Pick(n, i) == IF order = "reversed" THEN n + 1 - i
                      ELSE IF i <= n \div 2 THEN 2 * i ELSE 2 * (i - n \div 2) - 1
        Shuffle(seq) == [i \in 1..Len(seq) |-> seq[Pick(Len(seq), i)]]
    IN [img EXCEPT !.contours = Shuffle(img.contours), !.pbCands = Shuffle(img.pbCands)]

\* The same image where the correlation map has, next to every PB peak, a
\* second peak of the same confidence EchoShift pixels to the right.
EchoShift == 20
WithEcho(img) ==
    [img EXCEPT !.pbCands = Flatten([i \in 1..Len(img.pbCands) |->
                                <<img.pbCands[i], [img.pbCands[i] EXCEPT !.x = @ + EchoShift]>>])]

\* The same image photographed slanting: every contour lies step pixels
\* lower than the contour before it.
Steps == {4, 5, 30, 41}
Slanted(img, step) ==
    [img EXCEPT !.contours = [i \in 1..Len(img.contours) |->
                                 [img.contours[i] EXCEPT !.y = @ + step * (i - 1)]]]

\* A one-row image whose correlation map has up to MaxPeaks peaks around the
\* PB glyph, in raster order: PeakSpots are their offsets from the glyph's
\* own peak (29 and 30 straddle the suppression radius, the two peaks 40
\* above and the one 40 below are equally far from the row).
MaxPeaks == 3
PeakSpots == <<[dx |-> 0 - 130, dy |-> 0 - 40], [dx |-> 0, dy |-> 0 - 40],
               [dx |-> 0, dy |-> 0], [dx |-> 29, dy |-> 0], [dx |-> 30, dy |-> 0],
               [dx |-> 58, dy |-> 0], [dx |-> 0, dy |-> 29], [dx |-> 0 - 130, dy |-> 40]>>
PeakScores == {74, 75, 90}
PeakRow == PrintedRow(Cells(CanonWhite[2]), Cells(<<CanonPb[2]>>), TRUE, [in |-> 50, num |-> 130])
WithPeaks(img, S, score) ==
    LET spots == [i \in 1..Cardinality(S) |->
                     PeakSpots[CHOOSE r \in S : Cardinality({q \in S : q <= r}) = i]]
    IN [img EXCEPT !.pbCands = [i \in 1..Len(spots) |->
                                   [x |-> PbX(PeakRow) + spots[i].dx,
                                    y |-> RowTop(1) + 30 - (PbH \div 2) + spots[i].dy,
                                    confidence |-> score[i]]]]
PeakImages ==
    {WithPeaks(TicketImage(<<PeakRow>>, TRUE, <<>>, Null), S, score) :
        S \in {T \in SUBSET (1..Len(PeakSpots)) : Cardinality(T) \in 1..MaxPeaks},
        score \in [1..MaxPeaks -> PeakScores]}

\* The same image where cv.findContours reports the k-th glyph twice: the
\* second box lies DupShift to the right and below the first and correlates
\* less with the glyph's template.
DupShift == [dx |-> 4, dy |-> 3]
WithDuplicate(img, k) ==
    LET c == img.contours[k]
        dup == [c EXCEPT !.x = @ + DupShift.dx, !.y = @ + DupShift.dy,
                         !.score = [d \in 0..9 |-> IF c.score[d] > 70 THEN 70 ELSE c.score[d]]]
    IN [img EXCEPT !.contours = SubSeq(@, 1, k) \o <<dup>> \o SubSeq(@, k + 1, Len(@))]
DupImages ==
    {WithDuplicate(TicketImage(<<CanonRow(1, TRUE)>>, TRUE, <<>>, Null), k) : k \in 1..12}

RowImages ==
    {TicketImage(rows, TRUE, <<>>, Null) : rows \in CanonTickets \cup SingleRows}
    \cup {Slanted(TicketImage([r \in 1..n |-> CanonRow(r, TRUE)], TRUE, <<>>, Null), step) :
              n \in 1..2, step \in Steps}
    \cup {Reordered(TicketImage(rows, TRUE, <<>>, Null), order) : rows \in CanonTickets, order \in Orders}
    \cup {WithEcho(TicketImage([r \in 1..n |-> CanonRow(r, TRUE)], TRUE, <<>>, Null)) : n \in 1..MaxRows}
    \cup PeakImages \cup DupImages

LineLists ==
    {<<>>} \cup {<<l>> : l \in PrintedLines}
           \cup {<<l>> \o [i \in 1..k |-> m] : l \in PrintedLines, m \in SecondLines, k \in 1..(MaxLines - 1)}
\* Recognised text that holds two digit runs of 1 to MaxRun digits, apart by
\* a blank, a PB marker or a letter.
MaxRun == 7
RunDigits == <<"3", "1", "0", "9", "2", "6", "4", "5", "8", "7">>
RunSeparators == {<<" ">>, <<" ", "P", "B", " ">>, <<"a">>}
RunText(n, sep, m) == SubSeq(RunDigits, 1, n) \o sep \o SubSeq(RunDigits, 1, m)
RunImages ==
    {[TicketImage(<<>>, FALSE, <<>>, Null) EXCEPT !.text = RunText(n, sep, m)] :
        n \in 1..MaxRun, sep \in RunSeparators, m \in 1..MaxRun}
TextImages == {TicketImage(<<>>, FALSE, ls, Null) : ls \in LineLists} \cup RunImages

(***************************************************************************)
(* The two extractors applied to every image of the bounded sets.          *)
(***************************************************************************)
\* what a run of processTicketImage has done so far: how the primary path
\* ended and with which plays, the QR verdict, the region used, whether the
\* matching ran, an exception was caught, the fallback branch was entered,
\* extractNumbersFromOCR was called, the outer catch ran, plays were stored,
\* and the canvas normalizeOrientation warped to
NoTrace == [primary |-> "none", plays |-> <<>>, qr |-> "unknown", region |-> "unknown",
            canvas |-> NoCanvas, rect |-> NoRegion,
            matched |-> FALSE, caught |-> FALSE, fallback |-> FALSE, extracted |-> FALSE,
            threw |-> FALSE, declined |-> FALSE, stored |-> FALSE]

NoImage == TicketImage(<<>>, FALSE, <<>>, "none")
AllDigits == 0..9

InitPure(images) ==
    /\ templatesLoaded = TRUE /\ digitTemplates = AllDigits /\ pbTemplate = TRUE
    /\ ticketPlays = <<>> /\ extractedDate = Null
    /\ loadPc = <<"done", 0>> /\ cvReady = TRUE
    /\ image \in images
    /\ scanPc = "input" /\ extractedPlays = <<>> /\ liveMats = {} /\ trace = NoTrace
    /\ winningNumbers = NoDrawing /\ results = <<>>
    /\ currentEditIndex = NoIndex /\ modalOpen = FALSE
    /\ cameraStream = NoStream /\ pendingStarts = 0 /\ streams = <<>> /\ stopCameraRan = FALSE

\* Step 5 of extractNumbersTemplateMatching on the processed plays region
MatchRows ==
    /\ scanPc = "input"
    /\ extractedPlays' = matchPlays(image, digitTemplates, pbTemplate)
    /\ scanPc' = "output"
    /\ UNCHANGED <<CheckFrame, templatesLoaded, digitTemplates, pbTemplate, ticketPlays, extractedDate,
                   loadPc, cvReady, image, liveMats, trace>>

InitRows == InitPure(RowImages)
NextRows == MatchRows
SpecRows == InitRows /\ [][NextRows]_vars

\* extractNumbersFromOCR(ocrResult.data.text)
ExtractText ==
    /\ scanPc = "input"
    /\ extractedPlays' = extractNumbersFromOCR(image.text)
    /\ scanPc' = "output"
    /\ UNCHANGED <<CheckFrame, templatesLoaded, digitTemplates, pbTemplate, ticketPlays, extractedDate,
                   loadPc, cvReady, image, liveMats, trace>>

InitOCR == InitPure(TextImages)
NextOCR == ExtractText
SpecOCR == InitOCR /\ [][NextOCR]_vars

(***************************************************************************)
(* normalizeOrientation applied to photographs of one ticket taken upright *)
(* and turned by one, two or three quarter turns.  The ticket fills a      *)
(* square frame of side FrameSide; feature is the corner of its first      *)
(* printed glyph.                                                          *)
(***************************************************************************)
MaxQrSize == 12
FrameSide == 200
\* a point of the upright photograph after k quarter turns clockwise
RECURSIVE Turned(_, _)
Turned(p, k) ==
    IF k = 0 THEN p
    ELSE LET q == Turned(p, k - 1) IN [x |-> FrameSide - q.y, y |-> q.x]

\* The white-pixel counts of the rows of the search band: a dashed line (half
\* the pixels of a full row) on the first row, on the last row, on no row, or
\* a band without any white pixel.
Dashes == {"first", "last", "none", "blank"}
Profile(n, dash) ==
    [y \in 1..n |-> IF dash = "blank" THEN 0
                    ELSE IF (dash = "first" /\ y = 1) \/ (dash = "last" /\ y = n) THEN 50
                    ELSE 100]
QrPhoto(qx, qy, s, k, dash) ==
    LET qrPoints == [i \in 1..4 |-> Turned(QrSquare(qx, qy, s)[i], k)]
        qrTopY == normalizeOrientation(qrPoints).qrDestY
    IN [qr |-> TRUE, printed |-> [qx |-> qx, qy |-> qy, s |-> s], turns |-> k,
        qrPoints |-> qrPoints,
        feature |-> Turned([x |-> 40, y |-> 100], k),
        horizontalProj |-> Profile(RoundPct(72, qrTopY) - RoundPct(58, qrTopY), dash)]
QrImages ==
    {QrPhoto(qx, 150, s, k, dash) :
        qx \in {100, 120, 140}, s \in 1..MaxQrSize, k \in 0..3, dash \in Dashes}

\* Step 2 of extractNumbersTemplateMatching with a detected QR code
NormalizeQR ==
    /\ scanPc = "input"
    /\ trace' = [trace EXCEPT !.qr = "found", !.canvas = normalizeOrientation(image.qrPoints)]
    /\ scanPc' = "output"
    /\ UNCHANGED <<CheckFrame, templatesLoaded, digitTemplates, pbTemplate, ticketPlays, extractedDate,
                   loadPc, cvReady, image, extractedPlays, liveMats>>

\* Step 3 of extractNumbersTemplateMatching on the normalized canvas
CropPlaysRegion ==
    /\ scanPc = "output"
    /\ trace' = [trace EXCEPT !.rect = findPlaysRegion(trace.canvas, image.horizontalProj)]
    /\ scanPc' = "cropped"
    /\ UNCHANGED <<CheckFrame, templatesLoaded, digitTemplates, pbTemplate, ticketPlays, extractedDate,
                   loadPc, cvReady, image, extractedPlays, liveMats>>

NextQR == NormalizeQR \/ CropPlaysRegion
SpecQR == InitPure(QrImages) /\ [][NextQR]_vars

(***************************************************************************)
(* powerball-data.js and the ticket check.  A date 'YYYY-MM-DD' is the     *)
(* number YYYYMMDD, which orders as the ISO string does; 0 is the empty    *)
(* date field.  The amount 'Jackpot' is JackpotAmount.                     *)
(***************************************************************************)
powerballData ==
    <<
     [date |-> 20251217, white |-> <<25, 33, 53, 62, 66>>, powerball |-> 17, multiplier |-> 2],
     [date |-> 20251215, white |-> <<23, 35, 59, 63, 68>>, powerball |-> 2, multiplier |-> 3],
     [date |-> 20251213, white |-> <<1, 28, 31, 57, 58>>, powerball |-> 16, multiplier |-> 2],
     [date |-> 20250129, white |-> <<8, 12, 31, 33, 38>>, powerball |-> 18, multiplier |-> 2],
     [date |-> 20250127, white |-> <<2, 40, 47, 53, 55>>, powerball |-> 20, multiplier |-> 3],
     [date |-> 20250125, white |-> <<8, 15, 17, 53, 66>>, powerball |-> 14, multiplier |-> 2],
     [date |-> 20250122, white |-> <<5, 6, 27, 40, 49>>, powerball |-> 5, multiplier |-> 2],
     [date |-> 20250120, white |-> <<15, 16, 32, 47, 54>>, powerball |-> 6, multiplier |-> 3],
     [date |-> 20250118, white |-> <<14, 31, 35, 64, 69>>, powerball |-> 23, multiplier |-> 2],
     [date |-> 20250115, white |-> <<8, 41, 52, 53, 58>>, powerball |-> 7, multiplier |-> 4],
     [date |-> 20250113, white |-> <<4, 6, 16, 39, 66>>, powerball |-> 9, multiplier |-> 2],
     [date |-> 20250111, white |-> <<3, 6, 32, 37, 65>>, powerball |-> 4, multiplier |-> 3],
     [date |-> 20250108, white |-> <<1, 20, 36, 38, 43>>, powerball |-> 24, multiplier |-> 2],
     [date |-> 20250106, white |-> <<17, 34, 46, 66, 67>>, powerball |-> 14, multiplier |-> 2],
     [date |-> 20250104, white |-> <<26, 32, 43, 54, 56>>, powerball |-> 24, multiplier |-> 3],
     [date |-> 20250101, white |-> <<6, 12, 28, 35, 66>>, powerball |-> 26, multiplier |-> 2],
     [date |-> 20241230, white |-> <<4, 11, 15, 54, 66>>, powerball |-> 23, multiplier |-> 2],
     [date |-> 20241228, white |-> <<6, 12, 25, 53, 56>>, powerball |-> 1, multiplier |-> 3],
     [date |-> 20241225, white |-> <<2, 4, 13, 27, 35>>, powerball |-> 11, multiplier |-> 2],
     [date |-> 20241223, white |-> <<1, 7, 22, 47, 58>>, powerball |-> 26, multiplier |-> 2],
     [date |-> 20241221, white |-> <<6, 18, 26, 27, 49>>, powerball |-> 2, multiplier |-> 3],
     [date |-> 20241218, white |-> <<5, 17, 23, 40, 68>>, powerball |-> 25, multiplier |-> 2],
     [date |-> 20241216, white |-> <<10, 17, 20, 48, 67>>, powerball |-> 10, multiplier |-> 2],
     [date |-> 20241214, white |-> <<2, 20, 26, 53, 59>>, powerball |-> 22, multiplier |-> 3],
     [date |-> 20241211, white |-> <<4, 8, 15, 46, 65>>, powerball |-> 21, multiplier |-> 2],
     [date |-> 20241209, white |-> <<9, 20, 29, 44, 62>>, powerball |-> 17, multiplier |-> 4],
     [date |-> 20241207, white |-> <<2, 23, 30, 50, 64>>, powerball |-> 8, multiplier |-> 2],
     [date |-> 20241204, white |-> <<3, 10, 33, 58, 59>>, powerball |-> 9, multiplier |-> 3],
     [date |-> 20241202, white |-> <<21, 27, 36, 62, 66>>, powerball |-> 25, multiplier |-> 2],
     [date |-> 20241130, white |-> <<7, 38, 65, 66, 68>>, powerball |-> 23, multiplier |-> 2],
     [date |-> 20241127, white |-> <<11, 19, 21, 29, 52>>, powerball |-> 26, multiplier |-> 3],
     [date |-> 20241125, white |-> <<16, 30, 60, 62, 69>>, powerball |-> 25, multiplier |-> 2],
     [date |-> 20241123, white |-> <<1, 2, 17, 21, 66>>, powerball |-> 4, multiplier |-> 4],
     [date |-> 20241120, white |-> <<13, 33, 40, 60, 61>>, powerball |-> 20, multiplier |-> 2],
     [date |-> 20241118, white |-> <<27, 30, 44, 53, 63>>, powerball |-> 12, multiplier |-> 2],
     [date |-> 20241116, white |-> <<2, 15, 27, 61, 68>>, powerball |-> 11, multiplier |-> 3],
     [date |-> 20241113, white |-> <<6, 23, 25, 34, 51>>, powerball |-> 3, multiplier |-> 2],
     [date |-> 20241111, white |-> <<7, 22, 29, 44, 52>>, powerball |-> 19, multiplier |-> 2],
     [date |-> 20241109, white |-> <<19, 27, 30, 52, 56>>, powerball |-> 1, multiplier |-> 3],
     [date |-> 20241106, white |-> <<5, 33, 41, 44, 59>>, powerball |-> 24, multiplier |-> 2],
     [date |-> 20241104, white |-> <<1, 26, 32, 46, 51>>, powerball |-> 13, multiplier |-> 4],
     [date |-> 20241102, white |-> <<22, 26, 39, 47, 63>>, powerball |-> 12, multiplier |-> 2]
    >>

JackpotAmount == 0 - 1
prizeStructure ==
    <<[match |-> "5+PB", prize |-> JackpotAmount], [match |-> "5", prize |-> 1000000],
      [match |-> "4+PB", prize |-> 50000], [match |-> "4", prize |-> 100],
      [match |-> "3+PB", prize |-> 100], [match |-> "3", prize |-> 7],
      [match |-> "2+PB", prize |-> 7], [match |-> "1+PB", prize |-> 4],
      [match |-> "PB", prize |-> 4]>>

\* Array.prototype.find: the first entry with that date, or undefined
Undefined == [date |-> 0, white |-> <<>>, powerball |-> 0, multiplier |-> 0]
getDrawingByDate(dateString) ==
    LET hits == {i \in 1..Len(powerballData) : powerballData[i].date = dateString}
    IN IF hits = {} THEN Undefined
       ELSE powerballData[CHOOSE i \in hits : \A j \in hits : i <= j]

\* getMostRecentDrawing reading the other end of the table
getMostRecentDrawing_last == powerballData[Len(powerballData)]
getMostRecentDrawing == powerballData[1]

\* calculatePrize testing the white count before the powerball
calculatePrize_whitesFirst(whiteMatches, powerballMatch) ==
    IF whiteMatches = 5 THEN [type |-> "5", amount |-> 1000000]
    ELSE IF whiteMatches = 4 THEN [type |-> "4", amount |-> 100]
    ELSE IF whiteMatches = 3 THEN [type |-> "3", amount |-> 7]
    ELSE IF whiteMatches = 5 /\ powerballMatch THEN [type |-> "Jackpot", amount |-> JackpotAmount]
    ELSE IF whiteMatches = 4 /\ powerballMatch THEN [type |-> "4+PB", amount |-> 50000]
    ELSE IF whiteMatches = 3 /\ powerballMatch THEN [type |-> "3+PB", amount |-> 100]
    ELSE IF whiteMatches = 2 /\ powerballMatch THEN [type |-> "2+PB", amount |-> 7]
    ELSE IF whiteMatches = 1 /\ powerballMatch THEN [type |-> "1+PB", amount |-> 4]
    ELSE IF powerballMatch THEN [type |-> "PB", amount |-> 4]
    ELSE [type |-> "No match", amount |-> 0]
calculatePrize(whiteMatches, powerballMatch) ==
    IF whiteMatches = 5 /\ powerballMatch THEN [type |-> "Jackpot", amount |-> JackpotAmount]
    ELSE IF whiteMatches = 5 THEN [type |-> "5", amount |-> 1000000]
    ELSE IF whiteMatches = 4 /\ powerballMatch THEN [type |-> "4+PB", amount |-> 50000]
    ELSE IF whiteMatches = 4 THEN [type |-> "4", amount |-> 100]
    ELSE IF whiteMatches = 3 /\ powerballMatch THEN [type |-> "3+PB", amount |-> 100]
    ELSE IF whiteMatches = 3 THEN [type |-> "3", amount |-> 7]
    ELSE IF whiteMatches = 2 /\ powerballMatch THEN [type |-> "2+PB", amount |-> 7]
    ELSE IF whiteMatches = 1 /\ powerballMatch THEN [type |-> "1+PB", amount |-> 4]
    ELSE IF powerballMatch THEN [type |-> "PB", amount |-> 4]
    ELSE [type |-> "No match", amount |-> 0]

checkPlay(play, winning) ==
    LET whiteMatches == SelectSeq(play.white, LAMBDA n : \E i \in 1..Len(winning.white) : winning.white[i] = n)
        powerballMatch == play.powerball = winning.powerball
    IN [play |-> play, whiteMatches |-> whiteMatches, powerballMatch |-> powerballMatch,
        matchCount |-> Len(whiteMatches),
        prize |-> calculatePrize(Len(whiteMatches), powerballMatch)]

\* Tickets of one play that shares 0 to 5 whites, and the powerball or not,
\* with the drawing of 2025-12-17; dates of the table, a date without a
\* drawing, and the empty date field.
CheckPlays ==
    {[white |-> SortNumbers(SubSeq(<<3, 4, 5, 9, 10>>, 1, 5 - k) \o SubSeq(<<25, 33, 53, 62, 66>>, 1, k)),
      powerball |-> pb] : k \in 0..5, pb \in {17, 1}}
FetchDates == {powerballData[i].date : i \in 1..Len(powerballData)} \cup {20250130, 0}

InitCheck ==
    /\ templatesLoaded = TRUE /\ digitTemplates = AllDigits /\ pbTemplate = TRUE
    /\ ticketPlays \in {<<p>> : p \in CheckPlays} \cup {<<>>}
    /\ extractedDate = Null
    /\ loadPc = <<"done", 0>> /\ cvReady = TRUE
    /\ image = NoImage
    /\ scanPc = "idle" /\ extractedPlays = <<>> /\ liveMats = {} /\ trace = NoTrace
    /\ winningNumbers = NoDrawing /\ results = <<>>
    /\ currentEditIndex = NoIndex /\ modalOpen = FALSE
    /\ cameraStream = NoStream /\ pendingStarts = 0 /\ streams = <<>> /\ stopCameraRan = FALSE

\* fetchNumbersByDate with the date field holding date
FetchNumbersByDate(date) ==
    /\ LET drawing == getDrawingByDate(date)
       IN winningNumbers' = IF date = 0 \/ drawing = Undefined THEN winningNumbers
                            ELSE [date |-> date, white |-> drawing.white,
                                  powerball |-> drawing.powerball]
    /\ UNCHANGED <<templatesLoaded, digitTemplates, pbTemplate, ticketPlays, extractedDate,
                   loadPc, cvReady, image, scanPc, extractedPlays, liveMats, trace, results,
                   ModalFrame, CameraFrame>>

\* checkTicket: every play against the winning numbers
CheckTicket ==
    /\ results' = IF ticketPlays = <<>> \/ winningNumbers = NoDrawing THEN results
                  ELSE [i \in 1..Len(ticketPlays) |-> checkPlay(ticketPlays[i], winningNumbers)]
    /\ UNCHANGED <<templatesLoaded, digitTemplates, pbTemplate, ticketPlays, extractedDate,
                   loadPc, cvReady, image, scanPc, extractedPlays, liveMats, trace,
                   winningNumbers, ModalFrame, CameraFrame>>

NextCheck ==
    \/ \E date \in FetchDates : FetchNumbersByDate(date)
    \/ CheckTicket
SpecCheck == InitCheck /\ [][NextCheck]_vars

(***************************************************************************)
(* The application: loadDigitTemplates runs concurrently (one await per    *)
(* template) with the user's scans.  The synchronous part of a scan (the   *)
(* whole of extractNumbersTemplateMatching) runs to completion, so no      *)
(* other handler is enabled while scanPc is inside it.                     *)
(***************************************************************************)
MaxMissing == 1
MaxAppRows == 1

AppRowChoices ==
    {<<>>} \cup {[r \in 1..n |-> CanonRow(r, TRUE)] : n \in 1..MaxAppRows}
           \cup {<<CanonRow(1, FALSE)>>}
AppLineChoices ==
    {<<>>,
     <<PrintedLine(<<3, 18, 27, 44, 60>>, <<"P", "B">>, 12, <<>>, <<" ">>)>>,
     <<PrintedLine(<<14, 22, 45, 61>>, <<"P", "B">>, 9, <<>>, <<" ">>)>>}
DrawDate == "2025-01-04"
\* and a ticket whose only play has its powerball 9 among its whites
AppImages ==
    {TicketImage(rows, qr, lines, IF lines = <<>> THEN Null ELSE DrawDate) :
        rows \in AppRowChoices, qr \in BOOLEAN, lines \in AppLineChoices}
    \cup {TicketImage(<<PrintedRow(Cells(<<7, 9, 22, 45, 61>>), Cells(<<9>>), TRUE,
                                   [in |-> 50, num |-> 130])>>,
                       qr,
                       <<PrintedLine(<<7, 9, 22, 45, 61>>, <<"P", "B">>, 9, <<>>, <<" ">>)>>,
                       DrawDate) : qr \in BOOLEAN}

\* extractDrawingDate(text): the date printed in the recognised header, or null
extractDrawingDate(img) == img.date

Init ==
    /\ templatesLoaded = FALSE /\ digitTemplates = {} /\ pbTemplate = FALSE
    /\ ticketPlays = <<>> /\ extractedDate = Null
    /\ loadPc = <<"digit", 0>>
    /\ cvReady \in BOOLEAN
    /\ image = NoImage
    /\ scanPc = "idle" /\ extractedPlays = <<>> /\ liveMats = {} /\ trace = NoTrace
    /\ winningNumbers = NoDrawing /\ results = <<>>
    /\ currentEditIndex = NoIndex /\ modalOpen = FALSE
    /\ cameraStream = NoStream /\ pendingStarts = 0 /\ streams = <<>> /\ stopCameraRan = FALSE

\* no synchronous section is executing: another callback may run
Yielded == scanPc \in {"idle", "recognizing"}

\* the opencv.js script finishes loading
CvLoaded ==
    /\ Yielded /\ ~cvReady
    /\ cvReady' = TRUE
    /\ UNCHANGED <<CheckFrame, templatesLoaded, digitTemplates, pbTemplate, ticketPlays, extractedDate,
                   loadPc, image, scanPc, extractedPlays, liveMats, trace>>

\* the digit template files whose load may fail (img.onerror)
Missing == {d \in AllDigits : d < MaxMissing}

\* one iteration of the digit loop of loadDigitTemplates: loadImageAsCanvas
\* resolves with a canvas ("ok") or with null (onerror, "missing"); imread or
\* cvtColor may throw ("throw"), which the catch of loadDigitTemplates handles
LoadDigit(outcome) ==
    /\ Yielded /\ loadPc[1] = "digit"
    /\ outcome = "missing" => loadPc[2] \in Missing
    /\ outcome = "throw" => cvReady
    /\ IF outcome = "throw"
       THEN /\ loadPc' = <<"failed", 0>>
            /\ UNCHANGED digitTemplates
       ELSE /\ digitTemplates' = IF outcome = "ok" /\ cvReady
                                 THEN digitTemplates \cup {loadPc[2]} ELSE digitTemplates
            /\ loadPc' = IF loadPc[2] = 9 THEN <<"pb", 0>> ELSE <<"digit", loadPc[2] + 1>>
    /\ UNCHANGED <<CheckFrame, templatesLoaded, pbTemplate, ticketPlays, extractedDate,
                   cvReady, image, scanPc, extractedPlays, liveMats, trace>>

\* the PB marker template, then appState.templatesLoaded = true
LoadPB(outcome) ==
    /\ Yielded /\ loadPc[1] = "pb"
    /\ outcome = "throw" => cvReady
    /\ IF outcome = "throw"
       THEN /\ loadPc' = <<"failed", 0>>
            /\ UNCHANGED <<pbTemplate, templatesLoaded>>
       ELSE /\ pbTemplate' = (outcome = "ok" /\ cvReady)
            /\ templatesLoaded' = TRUE
            /\ loadPc' = <<"done", 0>>
    /\ UNCHANGED <<CheckFrame, digitTemplates, ticketPlays, extractedDate,
                   cvReady, image, scanPc, extractedPlays, liveMats, trace>>

\* handleFileUpload / captureImage: a new image is shown in #captured-image;
\* the locals of the previous processTicketImage call are out of scope
SelectImage(img) ==
    /\ scanPc = "idle"
    /\ img # image
    /\ image' = img
    /\ extractedPlays' = <<>> /\ liveMats' = {} /\ trace' = NoTrace
    /\ UNCHANGED <<CheckFrame, templatesLoaded, digitTemplates, pbTemplate, ticketPlays, extractedDate,
                   loadPc, cvReady, scanPc>>

\* processTicketImage that asks for OpenCV only, not for templatesLoaded
ProcessTicketImage_cvOnly ==
    /\ scanPc = "idle" /\ image # NoImage
    /\ extractedPlays' = <<>>
    /\ IF cvReady
       THEN /\ scanPc' = "binarize"
            /\ trace' = [NoTrace EXCEPT !.primary = "running"]
       ELSE /\ scanPc' = "dispatch"
            /\ trace' = [NoTrace EXCEPT !.primary = "skipped"]
    /\ liveMats' = {}
    /\ UNCHANGED <<CheckFrame, templatesLoaded, digitTemplates, pbTemplate, ticketPlays, extractedDate,
                   loadPc, cvReady, image>>

\* processTicketImage up to the call of extractNumbersTemplateMatching
ProcessTicketImage ==
    /\ scanPc = "idle" /\ image # NoImage
    /\ extractedPlays' = <<>>
    /\ IF templatesLoaded /\ cvReady
       THEN /\ scanPc' = "binarize"
            /\ trace' = [NoTrace EXCEPT !.primary = "running"]
       ELSE /\ scanPc' = "dispatch"
            /\ trace' = [NoTrace EXCEPT !.primary = "skipped"]
    /\ liveMats' = {}
    /\ UNCHANGED <<CheckFrame, templatesLoaded, digitTemplates, pbTemplate, ticketPlays, extractedDate,
                   loadPc, cvReady, image>>

ScanFrame == <<CheckFrame, templatesLoaded, digitTemplates, pbTemplate, ticketPlays, extractedDate,
               loadPc, cvReady, image>>

\* Step 1: imread, cvtColor, threshold
Binarize ==
    /\ scanPc = "binarize"
    /\ liveMats' = liveMats \cup {"src", "gray", "binary"}
    /\ scanPc' = "normalize"
    /\ UNCHANGED <<ScanFrame, extractedPlays, trace>>

\* Step 2: normalizeOrientation with findQRCode.  An exception inside
\* findQRCode is caught there and reported as found: false, without the
\* deletes of points and binaryInverted.
NormalizeOrientation(qrThrows) ==
    /\ scanPc = "normalize"
    /\ LET found == image.qr /\ ~qrThrows
           afterQR == IF qrThrows THEN liveMats \cup {"points", "binaryInverted"} ELSE liveMats
       IN /\ liveMats' = afterQR \cup {"normalized"}
          /\ trace' = [trace EXCEPT !.qr = IF found THEN "found" ELSE "none",
                                    !.canvas = IF found THEN normalizeOrientation(image.qrPoints)
                                               ELSE NoCanvas]
    /\ scanPc' = "region"
    /\ UNCHANGED <<ScanFrame, extractedPlays>>

\* findPlaysRegion where a missing QR code ends the primary path
FindPlaysRegion_stopWithoutQR ==
    /\ scanPc = "region"
    /\ IF trace.qr = "found"
       THEN /\ liveMats' = liveMats \cup {"region"}
            /\ trace' = [trace EXCEPT !.region = "plays"]
            /\ scanPc' = "morph"
       ELSE /\ liveMats' = liveMats
            /\ trace' = [trace EXCEPT !.primary = "null"]
            /\ scanPc' = "dispatch"
    /\ UNCHANGED <<ScanFrame, extractedPlays>>

\* Step 3: findPlaysRegion; without a QR code the full image is cloned
FindPlaysRegion ==
    /\ scanPc = "region"
    /\ liveMats' = liveMats \cup {"region"}
    /\ trace' = [trace EXCEPT !.region = IF trace.qr = "found" THEN "plays" ELSE "full"]
    /\ scanPc' = "morph"
    /\ UNCHANGED <<ScanFrame, extractedPlays>>

\* Step 4: morphological closing
Morphology ==
    /\ scanPc = "morph"
    /\ liveMats' = liveMats \cup {"kernel", "playsProcessed"}
    /\ scanPc' = "match"
    /\ UNCHANGED <<ScanFrame, extractedPlays, trace>>

\* Step 5: findPBMarkers, findAllDigits, groupDigitsByY, extractPlaysFromRows.
\* findAllDigits never deletes the Mat returned by contours.get(i); an
\* exception inside matchDigitTemplate is caught there, before the deletes
\* of the matrices of that scale.
MatchTemplates(matchThrows) ==
    /\ scanPc = "match"
    /\ extractedPlays' = matchPlays(image, digitTemplates, pbTemplate)
    /\ liveMats' = liveMats
                     \cup (IF image.contours # <<>> THEN {"contour"} ELSE {})
                     \cup (IF matchThrows /\ \E i \in 1..Len(image.contours) : sizeOk(image.contours[i])
                           THEN {"scaledTemplate", "resized"} ELSE {})
    /\ trace' = [trace EXCEPT !.matched = TRUE]
    /\ scanPc' = "cleanup"
    /\ UNCHANGED ScanFrame

\* Cleanup and return plays
Cleanup ==
    /\ scanPc = "cleanup"
    /\ liveMats' = liveMats \ {"src", "gray", "binary", "normalized", "region", "playsProcessed", "kernel"}
    /\ trace' = [trace EXCEPT !.primary = "returned", !.plays = extractedPlays]
    /\ scanPc' = "dispatch"
    /\ UNCHANGED <<ScanFrame, extractedPlays>>

\* an OpenCV call of the current step throws: catch (error) { return null }
InTry == {"binarize", "normalize", "region", "morph", "match", "cleanup"}
TemplateMatchingThrows ==
    /\ scanPc \in InTry
    /\ extractedPlays' = <<>>
    /\ trace' = [trace EXCEPT !.primary = "null", !.caught = TRUE]
    /\ scanPc' = "dispatch"
    /\ UNCHANGED <<ScanFrame, liveMats>>

\* the fallback entered whatever the primary path returned
StartFallback_always ==
    /\ scanPc = "dispatch"
    /\ trace' = [trace EXCEPT !.fallback = TRUE]
    /\ scanPc' = "recognizing"
    /\ UNCHANGED <<ScanFrame, extractedPlays, liveMats>>

\* if (!extractedPlays || extractedPlays.length === 0): await Tesseract.recognize
StartFallback ==
    /\ scanPc = "dispatch" /\ extractedPlays = <<>>
    /\ trace' = [trace EXCEPT !.fallback = TRUE]
    /\ scanPc' = "recognizing"
    /\ UNCHANGED <<ScanFrame, extractedPlays, liveMats>>

\* otherwise the plays of the primary path are stored, with a null date
StorePrimary ==
    /\ scanPc = "dispatch" /\ extractedPlays # <<>>
    /\ ticketPlays' = extractedPlays
    /\ extractedDate' = Null
    /\ trace' = [trace EXCEPT !.stored = TRUE]
    /\ scanPc' = "idle"
    /\ UNCHANGED <<CheckFrame, templatesLoaded, digitTemplates, pbTemplate, loadPc, cvReady, image,
                   extractedPlays, liveMats>>

\* RecognizeResolves where an empty list of plays raises an exception
RecognizeResolves_throwsOnEmpty ==
    /\ scanPc = "recognizing"
    /\ \E plays \in {extractNumbersFromOCR(image.text)} :
          /\ extractedPlays' = plays
          /\ IF plays = <<>>
             THEN /\ UNCHANGED <<ticketPlays, extractedDate>>
                  /\ trace' = [trace EXCEPT !.extracted = TRUE, !.threw = TRUE]
             ELSE /\ ticketPlays' = plays
                  /\ extractedDate' = extractDrawingDate(image)
                  /\ trace' = [trace EXCEPT !.extracted = TRUE, !.stored = TRUE]
    /\ scanPc' = "idle"
    /\ UNCHANGED <<CheckFrame, templatesLoaded, digitTemplates, pbTemplate, loadPc, cvReady, image, liveMats>>

\* Tesseract.recognize resolves: extractNumbersFromOCR, extractDrawingDate
RecognizeResolves ==
    /\ scanPc = "recognizing"
    /\ \E plays \in {extractNumbersFromOCR(image.text)} :
          /\ extractedPlays' = plays
          /\ IF plays = <<>>
             THEN /\ UNCHANGED <<ticketPlays, extractedDate>>
                  /\ trace' = [trace EXCEPT !.extracted = TRUE]
             ELSE /\ ticketPlays' = plays
                  /\ extractedDate' = extractDrawingDate(image)
                  /\ trace' = [trace EXCEPT !.extracted = TRUE, !.stored = TRUE]
    /\ scanPc' = "idle"
    /\ UNCHANGED <<CheckFrame, templatesLoaded, digitTemplates, pbTemplate, loadPc, cvReady, image, liveMats>>

\* Tesseract.recognize rejects: the catch of processTicketImage
RecognizeRejects ==
    /\ scanPc = "recognizing"
    /\ trace' = [trace EXCEPT !.threw = TRUE]
    /\ scanPc' = "idle"
    /\ UNCHANGED <<ScanFrame, extractedPlays, liveMats>>

Next ==
    \/ CvLoaded
    \/ \E outcome \in {"ok", "missing", "throw"} : LoadDigit(outcome)
    \/ \E outcome \in {"ok", "missing", "throw"} : LoadPB(outcome)
    \/ \E img \in AppImages : SelectImage(img)
    \/ ProcessTicketImage
    \/ Binarize
    \/ \E qrThrows \in BOOLEAN : NormalizeOrientation(qrThrows)
    \/ FindPlaysRegion
    \/ Morphology
    \/ \E matchThrows \in BOOLEAN : MatchTemplates(matchThrows)
    \/ Cleanup
    \/ TemplateMatchingThrows
    \/ StartFallback
    \/ StorePrimary
    \/ RecognizeResolves
    \/ RecognizeRejects

Spec == Init /\ [][Next]_vars

(***************************************************************************)
(* The play list and the play modal: openPlayModal, closePlayModal,        *)
(* savePlay, deletePlay, resetApp, next to the scans.  The fields of the   *)
(* modal are the six numbers parseInt reads from them, NaN for a field     *)
(* that holds no number.  An array slot that was never assigned is Hole.   *)
(***************************************************************************)
MaxPlays == 2
NaN == 0 - 1000
Hole == NoPlay

\* the checks of savePlay, in source order
savePlayAccepts(white, powerball) ==
    /\ ~(\E i \in 1..Len(white) : white[i] = NaN) /\ Len(white) = 5
    /\ powerball # NaN
    /\ ~(\E i \in 1..Len(white) : white[i] < 1 \/ white[i] > MaxWhite)
    /\ ~(powerball < 1 \/ powerball > MaxPowerball)
    /\ IsSet(white)

\* plays[index] = play, or plays.push(play) when index is null
assignPlay(plays, index, play) ==
    IF index = NoIndex THEN Append(plays, play)
    ELSE IF index < Len(plays) THEN [plays EXCEPT ![index + 1] = play]
    ELSE plays \o [i \in 1..(index - Len(plays)) |-> Hole] \o <<play>>

\* savePlay where the whites are stored as entered
savePlay_unsorted(plays, index, inputs) ==
    IF savePlayAccepts(SubSeq(inputs, 1, 5), inputs[6])
    THEN assignPlay(plays, index, [white |-> SubSeq(inputs, 1, 5), powerball |-> inputs[6]])
    ELSE plays
\* the play list after savePlay
savePlay(plays, index, inputs) ==
    IF savePlayAccepts(SubSeq(inputs, 1, 5), inputs[6])
    THEN assignPlay(plays, index,
                    [white |-> SortNumbers(SubSeq(inputs, 1, 5)), powerball |-> inputs[6]])
    ELSE plays

\* plays.splice(index, 1) after confirm()
deletePlay(plays, index, confirmed) ==
    IF confirmed /\ index >= 0 /\ index < Len(plays)
    THEN SubSeq(plays, 1, index) \o SubSeq(plays, index + 2, Len(plays))
    ELSE plays

ManualInputs ==
    {<<61, 7, 45, 14, 22, 9>>, <<7, 7, 14, 22, 45, 9>>, <<7, 14, 22, 45, 70, 9>>,
     <<0, 14, 22, 45, 61, 9>>, <<7, 14, 22, 45, 61, 27>>, <<7, 14, 22, 45, 61, 0>>,
     <<7, 14, NaN, 45, 61, 9>>, <<7, 14, 22, 45, 61, NaN>>}

\* the Edit button of play editIndex, or 'Enter manually' / 'Add play'
OpenPlayModal(editIndex) ==
    /\ Yielded
    /\ editIndex # NoIndex => ticketPlays[editIndex + 1] # Hole
    /\ currentEditIndex' = editIndex /\ modalOpen' = TRUE
    /\ UNCHANGED <<templatesLoaded, digitTemplates, pbTemplate, ticketPlays, extractedDate,
                   loadPc, cvReady, image, scanPc, extractedPlays, liveMats, trace,
                   winningNumbers, results, CameraFrame>>

\* Cancel, or a click outside the modal
ClosePlayModal ==
    /\ Yielded /\ modalOpen
    /\ currentEditIndex' = NoIndex /\ modalOpen' = FALSE
    /\ UNCHANGED <<templatesLoaded, digitTemplates, pbTemplate, ticketPlays, extractedDate,
                   loadPc, cvReady, image, scanPc, extractedPlays, liveMats, trace,
                   winningNumbers, results, CameraFrame>>

\* the Save button: a refused input leaves the modal open
SavePlay(inputs) ==
    /\ Yielded /\ modalOpen
    /\ currentEditIndex = NoIndex => Len(ticketPlays) < MaxPlays
    /\ ticketPlays' = savePlay(ticketPlays, currentEditIndex, inputs)
    /\ IF savePlayAccepts(SubSeq(inputs, 1, 5), inputs[6])
       THEN currentEditIndex' = NoIndex /\ modalOpen' = FALSE
       ELSE UNCHANGED ModalFrame
    /\ UNCHANGED <<templatesLoaded, digitTemplates, pbTemplate, extractedDate,
                   loadPc, cvReady, image, scanPc, extractedPlays, liveMats, trace,
                   winningNumbers, results, CameraFrame>>

\* the Delete button of play index in the list
DeletePlay(index, confirmed) ==
    /\ Yielded
    /\ ticketPlays[index + 1] # Hole
    /\ ticketPlays' = deletePlay(ticketPlays, index, confirmed)
    /\ UNCHANGED <<templatesLoaded, digitTemplates, pbTemplate, extractedDate,
                   loadPc, cvReady, image, scanPc, extractedPlays, liveMats, trace,
                   winningNumbers, results, ModalFrame, CameraFrame>>

\* the Delete button of the modal, shown when a play is edited:
\* deletePlay(appState.currentEditIndex), then closePlayModal
DeleteFromModal(confirmed) ==
    /\ Yielded /\ modalOpen /\ currentEditIndex # NoIndex
    /\ ticketPlays' = deletePlay(ticketPlays, currentEditIndex, confirmed)
    /\ currentEditIndex' = NoIndex /\ modalOpen' = FALSE
    /\ UNCHANGED <<templatesLoaded, digitTemplates, pbTemplate, extractedDate,
                   loadPc, cvReady, image, scanPc, extractedPlays, liveMats, trace,
                   winningNumbers, results, CameraFrame>>

\* resetApp ('Check another ticket')
ResetApp ==
    /\ Yielded
    /\ winningNumbers' = NoDrawing /\ ticketPlays' = <<>>
    /\ currentEditIndex' = NoIndex /\ extractedDate' = Null
    /\ UNCHANGED <<templatesLoaded, digitTemplates, pbTemplate,
                   loadPc, cvReady, image, scanPc, extractedPlays, liveMats, trace,
                   results, modalOpen, CameraFrame>>

\* the tickets scanned next to the manual entry: one read by the template
\* path with a white ball printed twice, one read by the template path as
\* printed, one read by the fallback only, one without any play
PlayImages ==
    {TicketImage(<<PrintedRow(Cells(<<7, 7, 14, 22, 45>>), Cells(<<9>>), TRUE,
                              [in |-> 50, num |-> 130])>>, TRUE, <<>>, Null),
     TicketImage(<<CanonRow(1, TRUE)>>, TRUE, <<>>, Null),
     TicketImage(<<>>, FALSE,
                 <<PrintedLine(<<3, 18, 27, 44, 60>>, <<"P", "B">>, 12, <<>>, <<" ">>)>>, DrawDate),
     TicketImage(<<>>, FALSE, <<>>, Null)}

InitPlays ==
    /\ templatesLoaded = TRUE /\ digitTemplates = AllDigits /\ pbTemplate = TRUE
    /\ ticketPlays = <<>> /\ extractedDate = Null
    /\ loadPc = <<"done", 0>> /\ cvReady = TRUE
    /\ image = NoImage
    /\ scanPc = "idle" /\ extractedPlays = <<>> /\ liveMats = {} /\ trace = NoTrace
    /\ winningNumbers = NoDrawing /\ results = <<>>
    /\ currentEditIndex = NoIndex /\ modalOpen = FALSE
    /\ cameraStream = NoStream /\ pendingStarts = 0 /\ streams = <<>> /\ stopCameraRan = FALSE

NextPlays ==
    \/ \E img \in PlayImages : SelectImage(img)
    \/ ProcessTicketImage
    \/ Binarize
    \/ \E qrThrows \in BOOLEAN : NormalizeOrientation(qrThrows)
    \/ FindPlaysRegion
    \/ Morphology
    \/ \E matchThrows \in BOOLEAN : MatchTemplates(matchThrows)
    \/ Cleanup
    \/ TemplateMatchingThrows
    \/ StartFallback
    \/ StorePrimary
    \/ RecognizeResolves
    \/ RecognizeRejects
    \/ \E editIndex \in {NoIndex} \cup (0..(Len(ticketPlays) - 1)) : OpenPlayModal(editIndex)
    \/ ClosePlayModal
    \/ \E inputs \in ManualInputs : SavePlay(inputs)
    \/ \E index \in 0..(Len(ticketPlays) - 1), confirmed \in BOOLEAN : DeletePlay(index, confirmed)
    \/ \E confirmed \in BOOLEAN : DeleteFromModal(confirmed)
    \/ ResetApp
SpecPlays == InitPlays /\ [][NextPlays]_vars

(***************************************************************************)
(* processTicketImage with Tesseract as the primary reader and OCR.space   *)
(* as the retry: the first reading, the quality assessment, the retry when *)
(* the reading is poor, the return without plays, the quality warning the  *)
(* user may decline, and the two assignments to appState.                  *)
(***************************************************************************)
MinConfidence == 60
MinPlays == 3
IsAlnum(c) == IsDigit(c) \/ c \in Letters
\* assessImageQuality: low confidence, fewer than three plays, and text of
\* which less than 0.3 is letters or digits
assessImageQuality(confidence, text, plays) ==
    LET alnum == Cardinality({i \in 1..Len(text) : IsAlnum(text[i])})
        len == IF Len(text) > 1 THEN Len(text) ELSE 1
        issues == (IF confidence < MinConfidence THEN {"low_confidence"} ELSE {})
                  \cup (IF Len(plays) > 0 /\ Len(plays) < MinPlays THEN {"few_plays"} ELSE {})
                  \cup (IF 10 * alnum < 3 * len THEN {"garbled_text"} ELSE {})
    IN  [hasIssues |-> issues # {}, issues |-> issues]
shouldUseFallback(confidence, plays) ==
    confidence < MinConfidence \/ Len(plays) = 0 \/ (Len(plays) > 0 /\ Len(plays) < MinPlays)

\* what a reader returned: Tesseract's text with its confidence, or the text
\* of OCR.space with the confidence ocrWithOCRSpace reports for it
SpaceConfidence == 90
newReading(img, usedFallback) ==
    LET text == IF usedFallback THEN img.spaceText ELSE img.text
        confidence == IF usedFallback THEN SpaceConfidence ELSE img.confidence
    IN  CHOOSE r \in {[plays |-> plays,
                       date |-> IF usedFallback THEN img.spaceDate ELSE extractDrawingDate(img),
                       quality |-> assessImageQuality(confidence, text, plays),
                       usedFallback |-> usedFallback] : plays \in {extractNumbersFromOCR(text)}} : TRUE
\* the first reading as the run still holds it when ocrWithOCRSpace returns null
keptReading(img, plays) ==
    [plays |-> plays, date |-> extractDrawingDate(img),
     quality |-> assessImageQuality(img.confidence, img.text, plays), usedFallback |-> FALSE]

\* the end of the run where the quality warning comes after the assignments
scanOutcome_warnAfterStore(reading, shouldContinue) ==
    IF reading.plays = <<>> THEN [stored |-> FALSE, declined |-> FALSE]
    ELSE IF reading.quality.hasIssues /\ ~reading.usedFallback /\ ~shouldContinue
    THEN [stored |-> TRUE, declined |-> TRUE]
    ELSE [stored |-> TRUE, declined |-> FALSE]
\* the end of the run: no plays, the warning declined, or the assignments
scanOutcome(reading, shouldContinue) ==
    IF reading.plays = <<>> THEN [stored |-> FALSE, declined |-> FALSE]
    ELSE IF reading.quality.hasIssues /\ ~reading.usedFallback /\ ~shouldContinue
    THEN [stored |-> FALSE, declined |-> TRUE]
    ELSE [stored |-> TRUE, declined |-> FALSE]

FinishOCR(reading, shouldContinue) ==
    /\ extractedPlays' = reading.plays
    /\ \E outcome \in {scanOutcome(reading, shouldContinue)} :
          /\ IF outcome.stored
             THEN /\ ticketPlays' = reading.plays
                  /\ extractedDate' = reading.date
             ELSE UNCHANGED <<ticketPlays, extractedDate>>
          /\ trace' = [trace EXCEPT !.extracted = TRUE, !.fallback = reading.usedFallback,
                                    !.declined = outcome.declined, !.stored = outcome.stored]
    /\ scanPc' = "idle"
    /\ UNCHANGED <<CheckFrame, templatesLoaded, digitTemplates, pbTemplate, loadPc, cvReady, image, liveMats>>

\* preprocessImage and the call of Tesseract.recognize; an exception of
\* preprocessImage goes to the catch
ProcessTicketImageOCR(preprocessThrows) ==
    /\ scanPc = "idle" /\ image # NoImage
    /\ extractedPlays' = <<>>
    /\ liveMats' = {}
    /\ IF preprocessThrows
       THEN /\ scanPc' = "idle"
            /\ trace' = [NoTrace EXCEPT !.primary = "ocr", !.threw = TRUE]
       ELSE /\ scanPc' = "tesseract"
            /\ trace' = [NoTrace EXCEPT !.primary = "ocr"]
    /\ UNCHANGED ScanFrame

\* the pending reader resolves.  Tesseract.recognize: the run goes on to the
\* await of ocrWithOCRSpace when the reading is poor, else to its end.
\* ocrWithOCRSpace: a result, or null after a failure it caught itself, and
\* the run goes to its end.
ReaderResolves(answered, shouldContinue) ==
    /\ scanPc \in {"tesseract", "ocrspace"}
    /\ scanPc = "tesseract" => answered
    /\ \E reading \in {IF answered THEN newReading(image, scanPc = "ocrspace")
                        ELSE keptReading(image, extractedPlays)} :
          IF scanPc = "tesseract" /\ shouldUseFallback(image.confidence, reading.plays)
          THEN /\ scanPc' = "ocrspace"
               /\ extractedPlays' = reading.plays
               /\ trace' = [trace EXCEPT !.extracted = TRUE]
               /\ UNCHANGED <<ScanFrame, liveMats>>
          ELSE FinishOCR(reading, shouldContinue)

\* Tesseract.recognize rejects: the catch
TesseractRejects ==
    /\ scanPc = "tesseract"
    /\ trace' = [trace EXCEPT !.threw = TRUE]
    /\ scanPc' = "idle"
    /\ UNCHANGED <<ScanFrame, extractedPlays, liveMats>>

\* ocrWithOCRSpace rejects before its own try (fetch of the data URL): the catch
OcrSpaceRejects ==
    /\ scanPc = "ocrspace"
    /\ trace' = [trace EXCEPT !.threw = TRUE]
    /\ scanPc' = "idle"
    /\ UNCHANGED <<ScanFrame, extractedPlays, liveMats>>

\* tickets with what each reader returns for them
ThreeLines ==
    <<PrintedLine(<<3, 18, 27, 44, 60>>, <<"P", "B">>, 12, <<>>, <<" ">>),
      PrintedLine(<<7, 14, 22, 45, 61>>, <<"P", "B">>, 9, <<>>, <<" ">>),
      PrintedLine(<<5, 11, 30, 41, 52>>, <<"P", "B">>, 20, <<>>, <<" ">>)>>
ScanLineChoices == {<<>>, <<ThreeLines[1]>>, ThreeLines}
ScanImage(rows, lines, confidence, spaceLines) ==
    [qr |-> TRUE, rows |-> rows, lines |-> lines,
     date |-> IF lines = <<>> THEN Null ELSE DrawDate, text |-> TextOf(lines),
     qrPoints |-> QrSquare(140, 150, 10),
     contours |-> Flatten([r \in 1..Len(rows) |-> RowContours(rows[r], r)]),
     pbCands |-> Flatten([r \in 1..Len(rows) |-> RowPbCands(rows[r], r)]),
     confidence |-> confidence, spaceText |-> TextOf(spaceLines),
     spaceDate |-> IF spaceLines = <<>> THEN Null ELSE DrawDate]
ScanImages ==
    {ScanImage(rows, ls, c, sl) :
        rows \in {<<>>, <<CanonRow(1, TRUE)>>}, ls \in ScanLineChoices,
        c \in {50, 90}, sl \in {<<>>, <<ThreeLines[2]>>}}

InitScans ==
    /\ templatesLoaded \in BOOLEAN
    /\ digitTemplates = (IF templatesLoaded THEN AllDigits ELSE {})
    /\ pbTemplate = templatesLoaded
    /\ ticketPlays = <<>> /\ extractedDate = Null
    /\ loadPc = (IF templatesLoaded THEN <<"done", 0>> ELSE <<"failed", 0>>) /\ cvReady = TRUE
    /\ image = NoImage
    /\ scanPc = "idle" /\ extractedPlays = <<>> /\ liveMats = {} /\ trace = NoTrace
    /\ winningNumbers = NoDrawing /\ results = <<>>
    /\ currentEditIndex = NoIndex /\ modalOpen = FALSE
    /\ cameraStream = NoStream /\ pendingStarts = 0 /\ streams = <<>> /\ stopCameraRan = FALSE

\* a run is one call of either processTicketImage
NextScans ==
    \/ \E img \in ScanImages : SelectImage(img)
    \/ ProcessTicketImage
    \/ Binarize
    \/ \E qrThrows \in BOOLEAN : NormalizeOrientation(qrThrows)
    \/ FindPlaysRegion
    \/ Morphology
    \/ \E matchThrows \in BOOLEAN : MatchTemplates(matchThrows)
    \/ Cleanup
    \/ TemplateMatchingThrows
    \/ StartFallback
    \/ StorePrimary
    \/ RecognizeResolves
    \/ RecognizeRejects
    \/ \E preprocessThrows \in BOOLEAN : ProcessTicketImageOCR(preprocessThrows)
    \/ \E answered \in BOOLEAN, shouldContinue \in BOOLEAN : ReaderResolves(answered, shouldContinue)
    \/ TesseractRejects
    \/ OcrSpaceRejects
SpecScans == InitScans /\ [][NextScans]_vars

(***************************************************************************)
(* The camera: startCamera with its await of getUserMedia, stopCamera and  *)
(* captureImage.  The streams handed out are numbered in the order of      *)
(* their arrival.                                                          *)
(***************************************************************************)
MaxStreams == 3
\* what the camera handlers leave alone
AppFrame == <<templatesLoaded, digitTemplates, pbTemplate, ticketPlays, extractedDate,
              loadPc, cvReady, scanPc, extractedPlays, liveMats, trace,
              winningNumbers, results, ModalFrame>>

\* startCamera up to its await: a click on camera-btn (or retakePhoto)
StartCamera ==
    /\ pendingStarts + Len(streams) < MaxStreams
    /\ pendingStarts' = pendingStarts + 1
    /\ stopCameraRan' = FALSE
    /\ UNCHANGED <<cameraStream, streams, image, AppFrame>>

\* getUserMedia resolves with a new stream: appState.cameraStream = stream
GetUserMediaResolves ==
    /\ pendingStarts > 0
    /\ pendingStarts' = pendingStarts - 1
    /\ streams' = Append(streams, "live")
    /\ cameraStream' = Len(streams) + 1
    /\ UNCHANGED <<stopCameraRan, image, AppFrame>>

\* getUserMedia rejects: the catch of startCamera
GetUserMediaRejects ==
    /\ pendingStarts > 0
    /\ pendingStarts' = pendingStarts - 1
    /\ UNCHANGED <<cameraStream, streams, stopCameraRan, image, AppFrame>>

\* the streams after stopCamera: the tracks of the stream held are stopped
stopCamera(all, held) ==
    IF held # NoStream THEN [all EXCEPT ![held] = "ended"] ELSE all

\* a click on cancel-camera-btn
StopCamera ==
    /\ streams' = stopCamera(streams, cameraStream)
    /\ cameraStream' = NoStream
    /\ stopCameraRan' = TRUE
    /\ UNCHANGED <<pendingStarts, image, AppFrame>>

\* a click on capture-btn: the frame the video element shows becomes the
\* captured image, then stopCamera
CaptureImage(frame) ==
    /\ image' = frame
    /\ streams' = stopCamera(streams, cameraStream)
    /\ cameraStream' = NoStream
    /\ stopCameraRan' = TRUE
    /\ UNCHANGED <<pendingStarts, AppFrame>>

CameraFrames == PlayImages \cup {NoImage}
NextCamera ==
    \/ StartCamera
    \/ GetUserMediaResolves
    \/ GetUserMediaRejects
    \/ StopCamera
    \/ \E frame \in CameraFrames : CaptureImage(frame)
SpecCamera == InitPlays /\ [][NextCamera]_vars

(***************************************************************************)
(* Properties of the two extractors.                                       *)
(***************************************************************************)
IsSorted(seq) == \A i \in 1..(Len(seq) - 1) : seq[i] <= seq[i + 1]
WellFormedPlay(p) ==
    /\ Len(p.white) = 5
    /\ IsSet(p.white)
    /\ \A i \in 1..Len(p.white) : p.white[i] >= 1 /\ p.white[i] <= 69
    /\ IsSorted(p.white)
    /\ p.powerball >= 1 /\ p.powerball <= 26
AllWellFormed(plays) == \A i \in 1..Len(plays) : WellFormedPlay(plays[i])

\* C1: every play returned by the template-matching path has five pairwise
\* distinct whites in 1..69, sorted ascending, and a powerball in 1..26.
C1_TemplatePlaysWellFormed == scanPc = "output" => AllWellFormed(extractedPlays)

\* the play a printed line stands for when it is read as written
PlayOfLine(l) == [white |-> SortNumbers(l.before), powerball |-> l.pb]

\* C2: every play returned by the fallback text extractor has five pairwise
\* distinct whites in 1..69, sorted ascending, and a powerball in 1..26; a
\* rejected candidate does not stop later lines: the well-formed second
\* line still yields its play, as the last play of the result.
C2_FallbackPlaysWellFormed ==
    scanPc = "output" =>
        /\ AllWellFormed(extractedPlays)
        /\ (Len(image.lines) >= 2 /\ image.lines[Len(image.lines)].marker # <<>>) =>
               /\ extractedPlays # <<>>
               /\ extractedPlays[Len(extractedPlays)] = PlayOfLine(image.lines[Len(image.lines)])

\* C2 witness: a first line rejected for repeated whites, the second line accepted
C2_Witness ==
    /\ scanPc = "output"
    /\ Len(image.lines) = 2
    /\ image.lines[1].before = <<7, 7, 14, 22, 45>> /\ image.lines[1].after = <<>>
    /\ image.lines[1].pb = 9
    /\ extractedPlays = <<PlayOfLine(image.lines[2])>>

\* the play a printed row stands for when it is read as written
CanonPlay(r) == [white |-> CanonWhite[r], powerball |-> CanonPb[r]]

\* C3: with five digit rows and PB markers detected only on rows 1, 2, 4
\* and 5, exactly the plays of rows 1, 2, 4, 5 are emitted, in that order.
C3_RowWithoutMarkerDropped ==
    (/\ scanPc = "output"
     /\ Len(image.rows) = 5
     /\ \A r \in 1..5 : image.rows[r] = CanonRow(r, r \in {1, 2, 4, 5}))
    => extractedPlays = <<CanonPlay(1), CanonPlay(2), CanonPlay(4), CanonPlay(5)>>

\* C6: for every digit row, ten white-side digits before the PB marker give
\* exactly five numbers, and fewer than ten give no play.
C6_DigitPairing ==
    scanPc = "output" =>
        LET digitRows == groupDigitsByY(findAllDigits(image.contours, digitTemplates))
            pbMarkers == findPBMarkers(image.pbCands, pbTemplate)
        IN \A r \in 1..Len(digitRows) :
              closestPB(digitRows[r], pbMarkers) # 0 =>
                 LET before == beforePB(digitRows[r], pbMarkers[closestPB(digitRows[r], pbMarkers)])
                 IN /\ Len(before) >= 10 =>
                         Len(reconstructTwoDigitNumbers(SliceLast(before, 10))) = 5
                    /\ Len(before) < 10 => rowPlay(digitRows[r], pbMarkers) = NoPlay

\* the valid numbers (1..69) among those printed before the marker
ValidBefore(l) == SelectSeq(l.before, LAMBDA n : n >= 1 /\ n <= 69)

\* C7: for every line "... PB N ..." (N in 1..26) that yields a play, the
\* whites are the five valid numbers immediately before the powerball.
C7_WhitesPrecedePowerball ==
    (/\ scanPc = "output"
     /\ Len(image.lines) = 1
     /\ image.lines[1].marker = <<"P", "B">>
     /\ image.lines[1].pb \in 1..26
     /\ extractedPlays # <<>>)
    => /\ Len(ValidBefore(image.lines[1])) >= 5
       /\ extractedPlays[1].white = SortNumbers(SliceLast(ValidBefore(image.lines[1]), 5))

\* C8: a line whose number directly after the PB marker is outside 1..26
\* yields no play.
C8_InvalidPowerballRejected ==
    (/\ scanPc = "output"
     /\ Len(image.lines) = 1
     /\ image.lines[1].marker = <<"P", "B">>
     /\ image.lines[1].pb \notin 1..26)
    => extractedPlays = <<>>

(***************************************************************************)
(* Properties of the dispatcher and of the matrices.                       *)
(***************************************************************************)
\* the primary path of the current run has ended (returned, threw or was skipped)
PrimaryEnded == trace.primary \in {"skipped", "null", "returned"}
\* the current run is at or past the await of the fallback, or has ended
PastDispatch == trace.primary # "none" /\ scanPc \in {"recognizing", "idle"}

C5_FallbackOnlyOnTotalFailure ==
    /\ trace.fallback => (PrimaryEnded /\ trace.plays = <<>>)
    /\ (PastDispatch /\ trace.plays = <<>>) => trace.fallback
    /\ trace.plays # <<>> => (~trace.fallback /\ ~trace.extracted)
    /\ (PastDispatch /\ trace.plays # <<>>) => (trace.stored /\ ticketPlays = trace.plays)

C5_Witness ==
    /\ scanPc = "idle" /\ trace.primary = "returned" /\ trace.plays # <<>>
    /\ trace.stored /\ ~trace.fallback /\ ticketPlays = trace.plays

\* C9: when extractNumbersTemplateMatching has ended, on any exit path,
\* every matrix allocated during the call has been released.
C9_AllMatricesReleased == scanPc = "dispatch" => liveMats = {}

\* C10: if any of the eleven templates is not held, the template-matching
\* path is not executed for a scan and the fallback is entered.
C10_MissingTemplateDisablesPrimary ==
    ((digitTemplates # AllDigits \/ ~pbTemplate) /\ trace.primary # "none") =>
        /\ trace.primary = "skipped"
        /\ PastDispatch => trace.fallback

(***************************************************************************)
(* Order of the plays, corner ordering, marker repairs, empty results.     *)
(***************************************************************************)
\* a ticket of canonical rows, printed top to bottom at RowTop(1), RowTop(2), ...
IsCanonTicket(rows) ==
    /\ Len(rows) >= 1
    /\ \A r \in 1..Len(rows) : rows[r] \in {CanonRow(r, TRUE), CanonRow(r, FALSE)}
PrintedPlays(rows) == [r \in 1..Len(rows) |-> CanonPlay(((r - 1) % 5) + 1)]
\* seq restricted to the positions in S, order kept
Restrict(seq, S) ==
    [i \in 1..Cardinality(S) |-> seq[CHOOSE r \in S : Cardinality({q \in S : q <= r}) = i]]
\* the correlation map has one peak for every detected PB glyph and no other
SinglePeaks(img) ==
    Len(img.pbCands) = Cardinality({r \in 1..Len(img.rows) : img.rows[r].pbSeen})
\* every contour sits at the top of a printed row
Level(img) ==
    \A i \in 1..Len(img.contours) : \E r \in 1..Len(img.rows) : img.contours[i].y = RowTop(r)
RasterOrder(img) ==
    \A i \in 1..(Len(img.contours) - 1) : img.contours[i].y <= img.contours[i + 1].y

\* C11: the plays of the template path come out in top-to-bottom row order
\* whatever the order in which the digit hits were enumerated: the plays of a
\* canonical ticket are the printed plays of some of its rows, in printed
\* order, and all of them when every row has its PB marker.
C11_PlaysTopToBottom ==
    (scanPc = "output" /\ IsCanonTicket(image.rows) /\ SinglePeaks(image) /\ Level(image)) =>
        /\ \E S \in SUBSET (1..Len(image.rows)) :
               extractedPlays = Restrict(PrintedPlays(image.rows), S)
        /\ (\A r \in 1..Len(image.rows) : image.rows[r].pbSeen) =>
               extractedPlays = PrintedPlays(image.rows)
C11_Witness ==
    /\ scanPc = "output" /\ IsCanonTicket(image.rows) /\ Len(image.rows) >= 3
    /\ SinglePeaks(image) /\ Level(image)
    /\ \A r \in 1..Len(image.rows) : image.rows[r].pbSeen
    /\ ~RasterOrder(image)
    /\ image.contours[1].y > image.contours[Len(image.contours)].y
    /\ extractedPlays = PrintedPlays(image.rows)

\* C12: normalization undoes a quarter-turn rotation of the photograph: the
\* QR code's own top-left corner lands on the destination square's top-left
\* corner, and a printed feature lands where it lands for the upright photo.
C12_RotationInvariant ==
    scanPc = "output" =>
        LET t == image.printed
            upright == QrPhoto(t.qx, t.qy, t.s, 0, "none")
        IN /\ warpPoint(trace.canvas, image.qrPoints[1])
                  = [x |-> trace.canvas.qrDestX, y |-> trace.canvas.qrDestY]
           /\ warpPoint(trace.canvas, image.feature)
                  = warpPoint(normalizeOrientation(upright.qrPoints), upright.feature)

\* a printed line 'w1 w2 w3 w4 w5 <marker> p' and nothing else: five distinct
\* whites in 1..69, the marker read as PB, MB or KB, p in 1..26
WellFormedLine(l) ==
    /\ Len(l.before) = 5 /\ IsSet(l.before)
    /\ \A i \in 1..5 : l.before[i] >= 1 /\ l.before[i] <= 69
    /\ l.marker \in {<<"P", "B">>, <<"M", "B">>, <<"K", "B">>}
    /\ l.pb >= 1 /\ l.pb <= 26
    /\ l.after = <<>>

\* C13: a well-formed line gives its single play (the whites sorted, the
\* powerball p) whether the marker is read as PB, MB or KB and whether the
\* tokens are separated by spaces or run together.
C13_MarkerAndSpacingRepairs ==
    (scanPc = "output" /\ Len(image.lines) = 1 /\ WellFormedLine(image.lines[1]))
        => extractedPlays = <<PlayOfLine(image.lines[1])>>
C13_Witness ==
    /\ scanPc = "output" /\ Len(image.lines) = 1 /\ WellFormedLine(image.lines[1])
    /\ image.lines[1].sep = <<>> /\ image.lines[1].marker = <<"P", "B">>
    /\ image.lines[1].before = <<7, 14, 22, 45, 61>> /\ image.lines[1].pb = 9
    /\ extractedPlays = <<[white |-> <<7, 14, 22, 45, 61>>, powerball |-> 9]>>

\* no printed line carries six numbers
NoQualifyingLine(img) ==
    \A i \in 1..Len(img.lines) :
        Len(img.lines[i].before) + 1 + Len(img.lines[i].after) < 6

\* C14: a scan whose two paths recover no play ends with an empty result and
\* not in the catch of processTicketImage; the text extractor returns the
\* empty list for empty text and for text without a line of six numbers.
C14_NoPlaysIsEmptyResult ==
    (scanPc = "idle" /\ trace.extracted) =>
        /\ ~trace.threw
        /\ NoQualifyingLine(image) => extractedPlays = <<>>
        /\ extractedPlays = <<>> => (~trace.stored /\ trace.fallback)
C14_Witness ==
    /\ scanPc = "idle" /\ trace.extracted /\ trace.primary = "returned" /\ trace.plays = <<>>
    /\ image.text # <<>> /\ NoQualifyingLine(image)
    /\ extractedPlays = <<>> /\ ~trace.threw /\ ~trace.stored

\* the ticket's single play is well formed and its powerball is one of its whites
PowerballAmongWhites(img) ==
    /\ Len(img.lines) = 1 /\ WellFormedLine(img.lines[1])
    /\ \E i \in 1..5 : img.lines[1].before[i] = img.lines[1].pb
    /\ Len(img.rows) = 1 /\ img.rows[1].pbSeen
    /\ img.rows[1].cells = Cells(img.lines[1].before)
    /\ img.rows[1].pbCells = Cells(<<img.lines[1].pb>>)

NoTies(img) ==
    /\ \A i, j \in 1..Len(img.pbCands) :
           (i < j /\ img.pbCands[i].confidence = img.pbCands[j].confidence) =>
               /\ img.pbCands[i].y # img.pbCands[j].y
               /\ \/ Abs(img.pbCands[i].x - img.pbCands[j].x) >= NmsRadius
                  \/ Abs(img.pbCands[i].y - img.pbCands[j].y) >= NmsRadius
    /\ \A i, j \in 1..Len(img.contours) :
           (i < j /\ img.contours[i].x = img.contours[j].x) =>
               Abs(img.contours[i].y - img.contours[j].y) > RowTolerance
SamePlaysInEveryOrder ==
    \A order \in Orders :
        matchPlays(Reordered(image, order), digitTemplates, pbTemplate) = extractedPlays

C17_ValidationIdempotent ==
    scanPc = "output" =>
        \A i \in 1..Len(extractedPlays) :
            LET p == extractedPlays[i]
            IN /\ validateRowPlay(p) = p
               /\ validateRowPlay(validateRowPlay(p)) = validateRowPlay(p)
               /\ IsSet(p.white) =>
                      /\ validateLinePlay(p) = p
                      /\ validateLinePlay(validateLinePlay(p)) = validateLinePlay(p)
C17_Witness ==
    /\ scanPc = "output" /\ Len(extractedPlays) >= 2
    /\ \A i \in 1..Len(extractedPlays) :
           /\ validateRowPlay(extractedPlays[i]) = extractedPlays[i]
           /\ validateLinePlay(extractedPlays[i]) = extractedPlays[i]

(***************************************************************************)
(* The winning-numbers table and the prize table.                          *)
(***************************************************************************)
\* the label of the prize table for a number of white matches and the powerball
MatchKey(whiteMatches, powerballMatch) ==
    IF powerballMatch THEN <<"PB", "1+PB", "2+PB", "3+PB", "4+PB", "5+PB">>[whiteMatches + 1]
    ELSE <<"none", "1", "2", "3", "4", "5">>[whiteMatches + 1]
\* what the prize table gives for a result, 0 when the table has no such row
TablePrize(r) ==
    LET key == MatchKey(r.matchCount, r.powerballMatch)
        listed == {i \in 1..Len(prizeStructure) : prizeStructure[i].match = key}
    IN IF listed = {} THEN 0 ELSE prizeStructure[CHOOSE i \in listed : TRUE].prize

\* C18: the prize of every checked play is the prize the table lists for its
\* number of matching whites (0..5) and its powerball match, and 0 for the
\* combinations the table does not list (0, 1 or 2 whites without the
\* powerball); it depends on these two values only.
C18_PrizeAgreesWithTable ==
    \A i \in 1..Len(results) :
        LET r == results[i]
        IN /\ r.matchCount \in 0..5
           /\ r.prize.amount = TablePrize(r)
           /\ r.prize = calculatePrize(r.matchCount, r.powerballMatch)
           /\ (r.prize.amount = 0) = (r.matchCount \in {0, 1, 2} /\ ~r.powerballMatch)
           /\ r.matchCount = Len(r.whiteMatches)
C18_Witness ==
    /\ Len(results) = 1 /\ winningNumbers.date = 20251217
    /\ results[1].matchCount = 4 /\ results[1].powerballMatch
    /\ results[1].prize.amount = 50000

WellFormedEntry(e) ==
    /\ Len(e.white) = 5
    /\ \A k \in 1..4 : e.white[k] < e.white[k + 1]
    /\ e.white[1] >= 1 /\ e.white[5] <= 69
    /\ e.powerball >= 1 /\ e.powerball <= 26
EntriesDated(d) == {i \in 1..Len(powerballData) : powerballData[i].date = d}

\* C19: powerballData is in strictly descending date order (so no date is
\* repeated), every entry is well formed, getMostRecentDrawing is the entry
\* with the latest date, getDrawingByDate(d) is the only entry dated d or
\* undefined, and the winning numbers fetched by date are that entry's.
C19_TableSortedAndLookup ==
    /\ \A i \in 1..(Len(powerballData) - 1) : powerballData[i].date > powerballData[i + 1].date
    /\ \A i \in 1..Len(powerballData) : WellFormedEntry(powerballData[i])
    /\ \A i \in 1..Len(powerballData) : getMostRecentDrawing.date >= powerballData[i].date
    /\ \A d \in FetchDates :
           IF EntriesDated(d) = {} THEN getDrawingByDate(d) = Undefined
           ELSE /\ Cardinality(EntriesDated(d)) = 1
                /\ \A i \in EntriesDated(d) : getDrawingByDate(d) = powerballData[i]
    /\ winningNumbers # NoDrawing =>
           \E i \in 1..Len(powerballData) :
               /\ powerballData[i].date = winningNumbers.date
               /\ powerballData[i].white = winningNumbers.white
               /\ powerballData[i].powerball = winningNumbers.powerball
C19_Witness ==
    /\ winningNumbers = [date |-> 20250104, white |-> <<26, 32, 43, 54, 56>>, powerball |-> 24]
    /\ getDrawingByDate(20250130) = Undefined
    /\ getMostRecentDrawing.date = 20251217

\* seq2 holds the elements of seq1, each as often as seq1 does
SameHits(seq1, seq2) ==
    /\ Len(seq1) = Len(seq2)
    /\ \A k \in 1..Len(seq1) :
           Cardinality({i \in 1..Len(seq1) : seq1[i] = seq1[k]})
               = Cardinality({i \in 1..Len(seq2) : seq2[i] = seq1[k]})
RowsPartition(hits, rows) ==
    /\ SameHits(hits, Flatten(rows))
    /\ \A r \in 1..Len(rows) : rows[r] # <<>>
    /\ \A r \in 1..Len(rows) : \A i, j \in 1..Len(rows[r]) :
           Abs(rows[r][i].y - rows[r][j].y) <= 40
    /\ \A r \in 1..(Len(rows) - 1) :
           /\ rows[r + 1][1].y - rows[r][1].y > 40
           /\ \A i \in 1..Len(rows[r]) : rows[r][i].y <= rows[r + 1][1].y
    /\ \A r \in 1..Len(rows) : \A i \in 1..Len(rows[r]) :
           rows[r][i].y >= rows[r][1].y /\ rows[r][i].y - rows[r][1].y <= 40

\* C20: groupDigitsByY puts every digit hit in exactly one row, two hits of a
\* row are at most 40 apart in y, and, in ascending y, a hit opens a new row
\* exactly when it is more than 40 below the first hit of the current row.
C20_RowsPartitionHits ==
    scanPc = "output" =>
        \E hits \in {findAllDigits(image.contours, digitTemplates)} :
            \E rows \in {groupDigitsByY(hits)} : RowsPartition(hits, rows)
\* hits 30 apart: the third is within 40 of the second and opens a new row
C20_Witness ==
    /\ scanPc = "output"
    /\ \E hits \in {findAllDigits(image.contours, digitTemplates)} :
           \E rows \in {groupDigitsByY(hits)} :
               /\ RowsPartition(hits, rows)
               /\ Len(rows) >= 3 /\ Len(rows[1]) = 2
               /\ rows[1][2].y - rows[1][1].y = 30
               /\ rows[2][1].y - rows[1][2].y = 30

(***************************************************************************)
(* PB markers, pairing of digits, duplicate contours.                      *)
(***************************************************************************)
Near(a, b) == Abs(a.x - b.x) < NmsRadius /\ Abs(a.y - b.y) < NmsRadius
InSeq(e, seq) == \E i \in 1..Len(seq) : seq[i] = e
Suppressed(cands, markers) ==
    {i \in 1..Len(cands) : cands[i].confidence >= PbThreshold /\ ~InSeq(cands[i], markers)}

\* C21: every marker findPBMarkers returns is a candidate of correlation at
\* least 0.75, no two markers lie within 30 pixels of each other in both x
\* and y, every candidate at or above the threshold that is not returned
\* lies within 30 pixels in both x and y of a returned marker whose
\* correlation is not lower, and the markers are sorted by y ascending.
C21_MarkersSuppressed ==
    (scanPc = "output" /\ pbTemplate) =>
        \E markers \in {findPBMarkers(image.pbCands, pbTemplate)} :
            /\ \A k \in 1..Len(markers) :
                   markers[k].confidence >= 75 /\ InSeq(markers[k], image.pbCands)
            /\ \A j, k \in 1..Len(markers) :
                   j # k => ~(Abs(markers[j].x - markers[k].x) < 30
                              /\ Abs(markers[j].y - markers[k].y) < 30)
            /\ \A i \in Suppressed(image.pbCands, markers) :
                   \E k \in 1..Len(markers) :
                       /\ Abs(image.pbCands[i].x - markers[k].x) < 30
                       /\ Abs(image.pbCands[i].y - markers[k].y) < 30
                       /\ markers[k].confidence >= image.pbCands[i].confidence
            /\ \A k \in 1..(Len(markers) - 1) : markers[k].y <= markers[k + 1].y
\* three peaks at or above the threshold: the strongest, lower in the image,
\* suppresses the one next to it and the third is kept above it
C21_Witness ==
    /\ scanPc = "output" /\ pbTemplate /\ Len(image.pbCands) = 3
    /\ \A i \in 1..3 : image.pbCands[i].confidence >= 75
    /\ image.pbCands[2].confidence < image.pbCands[3].confidence
    /\ Near(image.pbCands[2], image.pbCands[3])
    /\ \E markers \in {findPBMarkers(image.pbCands, pbTemplate)} :
           /\ markers = <<image.pbCands[1], image.pbCands[3]>>
           /\ Suppressed(image.pbCands, markers) = {2}

\* Len(row) times the distance of the marker's vertical centre from the
\* mean y of the row
CentreDist(row, m) == Abs((m.y + 44) * Len(row) - SumY(row))
\* markers j and k are the two closest to the row, equally far from it
TiedClosest(row, markers, j, k) ==
    /\ j # k
    /\ CentreDist(row, markers[j]) = CentreDist(row, markers[k])
    /\ \A i \in 1..Len(markers) : CentreDist(row, markers[i]) >= CentreDist(row, markers[j])

\* C22: when two PB markers are the closest to a row and their vertical
\* centres are equally far from the row's mean y, the marker used for the
\* row has the smaller y, and the play of the row is the one cut at that
\* marker when no other marker has the same y.
C22_TieTakesSmallerY ==
    (scanPc = "output" /\ pbTemplate) =>
        \E markers \in {findPBMarkers(image.pbCands, pbTemplate)} :
            \E rows \in {groupDigitsByY(findAllDigits(image.contours, digitTemplates))} :
                \A r \in 1..Len(rows) : \A j, k \in 1..Len(markers) :
                    (TiedClosest(rows[r], markers, j, k) /\ markers[j].y < markers[k].y) =>
                        /\ markers[closestPB(rows[r], markers)].y = markers[j].y
                        /\ (\A i \in 1..Len(markers) : markers[i].y = markers[j].y => i = j) =>
                               rowPlay(rows[r], markers) = rowPlay(rows[r], <<markers[j]>>)
\* the marker 40 above the row stands at the PB glyph, the one 40 below
\* stands before the fifth white ball and would cut the row short
C22_Witness ==
    /\ scanPc = "output" /\ pbTemplate /\ Len(extractedPlays) = 1
    /\ \E markers \in {findPBMarkers(image.pbCands, pbTemplate)} :
           \E rows \in {groupDigitsByY(findAllDigits(image.contours, digitTemplates))} :
               /\ Len(rows) = 1 /\ Len(markers) = 2
               /\ TiedClosest(rows[1], markers, 1, 2)
               /\ markers[1].y < markers[2].y /\ markers[1].x # markers[2].x
               /\ rowPlay(rows[1], <<markers[2]>>) = NoPlay
               /\ extractedPlays = <<rowPlay(rows[1], <<markers[1]>>)>>

\* the walk reconstructTwoDigitNumbers is said to make: hits in ascending x,
\* a hit and its successor at most gap apart form d1*10+d2
RECURSIVE PairedWithin(_, _)
PairedWithin(sorted, gap) ==
    IF sorted = <<>> THEN <<>>
    ELSE IF Len(sorted) >= 2 /\ sorted[2].x - sorted[1].x <= gap
         THEN <<sorted[1].digit * 10 + sorted[2].digit>> \o PairedWithin(Tail(Tail(sorted)), gap)
         ELSE <<sorted[1].digit>> \o PairedWithin(Tail(sorted), gap)
\* the digit lists extractPlaysFromRows hands to reconstructTwoDigitNumbers
PairingInputs(img) ==
    LET markers == findPBMarkers(img.pbCands, pbTemplate)
        rows == groupDigitsByY(findAllDigits(img.contours, digitTemplates))
        used == {r \in 1..Len(rows) : closestPB(rows[r], markers) # 0}
    IN {SliceLast(beforePB(rows[r], markers[closestPB(rows[r], markers)]), WhiteDigits) : r \in used}
       \cup {SliceFirst(afterPB(rows[r], markers[closestPB(rows[r], markers)]), PowerballDigits) : r \in used}

\* C23: reconstructTwoDigitNumbers walks the hits in ascending x and
\* combines a hit with its successor into d1*10+d2 when the two are within
\* 110 pixels in x, a gap of exactly 110 included, and otherwise emits the
\* single digit; every hit contributes to exactly one number.
C23_PairsWithin110 ==
    scanPc = "output" =>
        \A digitsList \in PairingInputs(image) :
            reconstructTwoDigitNumbers(digitsList) = PairedWithin(SortByX(digitsList), 110)

\* the hits findAllDigits reports for one glyph twice lie within a radius of
\* 10 pixels of each other
SameGlyph(a, b) == (a.x - b.x) * (a.x - b.x) + (a.y - b.y) * (a.y - b.y) <= 100

\* C24: of two overlapping candidate boxes for one glyph only one digit hit
\* is kept: no row holds two digit hits within 10 pixels of each other.
C24_OneHitPerGlyph ==
    scanPc = "output" =>
        \E rows \in {groupDigitsByY(findAllDigits(image.contours, digitTemplates))} :
            \A r \in 1..Len(rows) : \A i, j \in 1..Len(rows[r]) :
                i # j => ~SameGlyph(rows[r][i], rows[r][j])

(***************************************************************************)
(* The digit-run split of the fallback extractor.                          *)
(***************************************************************************)
\* the first and the last position of the maximal digit run that holds i
RunFirst(t, i) ==
    CHOOSE f \in 1..i : (\A j \in f..i : IsDigit(t[j])) /\ (f = 1 \/ ~IsDigit(t[f - 1]))
RunLast(t, i) ==
    CHOOSE l \in i..Len(t) : (\A j \in i..l : IsDigit(t[j])) /\ (l = Len(t) \/ ~IsDigit(t[l + 1]))
\* a chunk of a run of four or more digits starts at i, and it is not the
\* first chunk of the run
ChunkStart(t, i) ==
    /\ IsDigit(t[i])
    /\ RunLast(t, i) - RunFirst(t, i) + 1 >= 4
    /\ i > RunFirst(t, i) /\ (i - RunFirst(t, i)) % 2 = 0
\* t1 is t0 with one blank before every chunk start and nothing else changed
SplitInChunks(t0, t1) ==
    \E ins \in {[i \in 1..Len(t0) |-> ChunkStart(t0, i)]} :
        \E pos \in {[i \in 1..Len(t0) |-> i + Cardinality({j \in 1..i : ins[j]})]} :
            /\ Len(t1) = Len(t0) + Cardinality({j \in 1..Len(t0) : ins[j]})
            /\ \A i \in 1..Len(t0) : t1[pos[i]] = t0[i] /\ (ins[i] => t1[pos[i] - 1] = " ")
RunLengths(t) ==
    {RunLast(t, i) - i + 1 : i \in {j \in 1..Len(t) : IsDigit(t[j]) /\ RunFirst(t, j) = j}}

\* C25: the digit-run split replaces every maximal run of four or more
\* digits by its digits in chunks of two separated by one blank, the last
\* chunk having one digit when the run length is odd, and leaves runs of one
\* to three digits and everything else unchanged.
C25_RunsSplitInPairs ==
    scanPc = "output" =>
        \E t0 \in {fixCommonErrors(image.text)} :
            /\ SplitInChunks(t0, fixLongRuns(t0))
            /\ extractedPlays = extractNumbersFromOCR(image.text)
            /\ (\A n \in RunLengths(t0) : n <= 3) => fixLongRuns(t0) = t0
\* a run of three digits next to a run of five: "310 PB 31092" becomes
\* "310 PB 31 09 2"
C25_Witness ==
    /\ scanPc = "output"
    /\ \E t0 \in {fixCommonErrors(image.text)} :
           /\ RunLengths(t0) = {3, 5}
           /\ SplitInChunks(t0, fixLongRuns(t0))
           /\ Len(fixLongRuns(t0)) = Len(t0) + 2
           /\ fixLongRuns(t0)[Len(t0) + 2] = t0[Len(t0)]
           /\ fixLongRuns(t0)[Len(t0) + 1] = " "

(***************************************************************************)
(* The plays region on the normalized canvas.                              *)
(***************************************************************************)
\* the region has the two margins, its separator lies in the search band,
\* its height is positive and it lies inside the canvas
RegionAsStated(canvas, rect) ==
    /\ rect.topY = rect.boundaryY + 10 /\ rect.bottomY = canvas.qrDestY - 10
    /\ rect.searchStartY = RoundDiv(58 * canvas.qrDestY, 100)
    /\ rect.searchEndY = RoundDiv(72 * canvas.qrDestY, 100)
    /\ rect.searchStartY <= rect.boundaryY /\ rect.boundaryY < rect.searchEndY
    /\ rect.bottomY - rect.topY > 0
    /\ rect.topY >= 0 /\ rect.bottomY <= canvas.ticketHeight
    /\ canvas.ticketHeight = RoundDiv(108 * canvas.qrSize, 10)
    /\ canvas.ticketWidth = canvas.ticketHeight

\* C26 as stated: for every detected QR edge length s >= 1 the plays region
\* is the row range [separator_y + 10, qr_top_y - 10) with the separator in
\* the band [round(0.58 * qr_top_y), round(0.72 * qr_top_y)), has positive
\* height and lies inside the canvas of side round(10.8 * s).
C26_RegionForEveryEdge ==
    (scanPc = "cropped" /\ trace.canvas.qrSize >= 1) => RegionAsStated(trace.canvas, trace.rect)

\* C26: the same for every detected QR edge length s >= 8; for smaller
\* edges the two margins of 10 rows can leave no row between them.
C26_RegionForEdgeFrom8 ==
    /\ (scanPc = "cropped" /\ trace.canvas.qrSize >= 8) =>
           RegionAsStated(trace.canvas, trace.rect)
    /\ scanPc = "cropped" => trace.canvas.qrSize = image.printed.s
\* edge 8: the separator on the last row of the band leaves two rows
C26_Witness ==
    /\ scanPc = "cropped" /\ trace.canvas.qrSize = 8
    /\ trace.rect.boundaryY = trace.rect.searchEndY - 1
    /\ trace.rect.bottomY - trace.rect.topY = 2
    /\ RegionAsStated(trace.canvas, trace.rect)

(***************************************************************************)
(* The play list under scans and manual entry.                             *)
(***************************************************************************)
\* C27: in every reachable state every element of appState.ticketPlays has
\* exactly five distinct whites in 1..69 sorted ascending and a powerball
\* in 1..26.
C27_TicketPlaysWellFormed ==
    \A i \in 1..Len(ticketPlays) : ticketPlays[i] # Hole => WellFormedPlay(ticketPlays[i])

(***************************************************************************)
(* The loader and the scans.                                               *)
(***************************************************************************)
\* loadDigitTemplates has not returned yet
Loading == loadPc[1] \in {"digit", "pb"}

\* C28: the template-matching path never runs while loadDigitTemplates is
\* still in progress; a scan started before the loader finished skips the
\* template path, goes to the fallback and never reaches the matching.
C28_NoMatchingWhileLoading ==
    /\ [](scanPc \in InTry => (~Loading /\ templatesLoaded))
    /\ [][(scanPc = "idle" /\ scanPc' # "idle" /\ Loading) =>
              (scanPc' = "dispatch" /\ trace'.primary = "skipped" /\ extractedPlays' = <<>>)]_vars
    /\ [][(scanPc = "dispatch" /\ trace.primary = "skipped") =>
              (scanPc' = "recognizing" /\ trace'.fallback /\ trace'.primary = "skipped")]_vars
    /\ [](trace.primary = "skipped" => (~trace.matched /\ scanPc \notin InTry))
\* a scan started with some digit templates held and the loader still
\* running waits for the fallback while the loader goes on
C28_Witness ==
    /\ Loading /\ cvReady /\ digitTemplates # {} /\ digitTemplates # AllDigits
    /\ scanPc = "recognizing" /\ trace.primary = "skipped" /\ trace.fallback
    /\ ~trace.matched


\* a run of processTicketImage is over, and how it ended
RunEnded == scanPc = "idle" /\ trace.primary # "none"
FailedRun == RunEnded /\ (extractedPlays = <<>> \/ trace.threw \/ trace.declined)

\* C29: a run of processTicketImage that ends without plays, with a thrown
\* error or with the quality warning declined has made no assignment to
\* appState.ticketPlays or appState.extractedDate, and every step of a run
\* other than its final assignment leaves both as they were: the assignment
\* is the last step of a run, and a failed run has not made it.
C29_FailedRunKeepsPlays ==
    /\ [][~trace'.stored => UNCHANGED <<ticketPlays, extractedDate>>]_vars
    /\ [](trace.stored => scanPc = "idle")
    /\ [](FailedRun => ~trace.stored)
\* a run over different plays was declined at the quality warning while the
\* plays and the date of an earlier run are held
C29_Witness ==
    /\ FailedRun /\ trace.declined
    /\ ticketPlays # <<>> /\ ticketPlays # extractedPlays
    /\ extractedDate = DrawDate

\* the streams with live tracks that appState.cameraStream does not hold
LeakedStreams == {i \in 1..Len(streams) : streams[i] = "live" /\ cameraStream # i}

\* C30: once stopCamera has run after the last call of startCamera and no
\* startCamera is pending, every stream getUserMedia handed out is the one
\* held in appState.cameraStream or has had its tracks stopped.
C30_NoLiveStreamLeft == (stopCameraRan /\ pendingStarts = 0) => LeakedStreams = {}
====
